---- MODULE Spec2Model ----
(***************************************************************************)
(* Threshold-issued anonymous credentials (t-siris): keygen over Shamir    *)
(* shares, per-attribute blind issuance, Lagrange aggregation, show and    *)
(* pairing verification, Schnorr opening proofs and their batch verifier.  *)
(*                                                                         *)
(* Algebra.  The scalar field F is the prime field of order P.  G1, G2 and *)
(* GT are cyclic of order P; an element is written as its discrete         *)
(* logarithm to a fixed generator of its group, so the group law is        *)
(* addition mod P, scalar multiplication is multiplication mod P, and the  *)
(* pairing e(a, b) is the product a*b mod P (an exponent of the GT         *)
(* generator).  The identity of every group is 0; TargetField::one() is    *)
(* the GT element with exponent 0.                                         *)
(***************************************************************************)
EXTENDS Integers, Sequences, FiniteSets, TLC

\* Order of the scalar field and of the three groups (a small prime standing
\* for the BLS12-381 group order).
P == 5

\* Number of signers n handed to keygen; party indices are 1..MaxN < P.
MaxN == 3
\* Number of attributes l handed to keygen.
MaxL == 1
\* Number of bases of a Schnorr statement.
MaxBases == 2
\* The random generator returns scalars from 0..MaxDraw.
MaxDraw == 1
\* Longest list of signature shares handed to aggregation.
MaxShares == 3
\* The random generator returns the request base h from 1..MaxPoint.
MaxPoint == 2

Fr == 0 .. (P - 1)
Draws == {d % P : d \in 0 .. MaxDraw}
NonZeroDraws == {d \in Draws : d # 0}
PointDraws == {d % P : d \in 1 .. MaxPoint} \ {0}

Min(a, b) == IF a < b THEN a ELSE b

(* ---------------- field and group arithmetic ---------------- *)
FAdd(a, b) == (a + b) % P
FSub(a, b) == (a + P - b) % P
FMul(a, b) == (a * b) % P
\* Field::inverse: None for zero, otherwise the multiplicative inverse.
Inverse(a) == IF a = 0 THEN [some |-> FALSE, v |-> 0]
              ELSE [some |-> TRUE, v |-> CHOOSE b \in Fr : (a * b) % P = 1]
\* F::from(i as u64)
FromU64(i) == i % P

Add(a, b) == (a + b) % P
Neg(a) == (P - a) % P
Mul(a, s) == (a * s) % P
\* E::TargetField: its multiplicative group is cyclic of order Cofactor * P and
\* holds the pairing outputs as its subgroup of order P; an element stands
\* for its discrete logarithm, so the field's product is a sum.
Cofactor == 2
TargetField == 0 .. (Cofactor * P - 1)
GtOne == 0
GtMul(a, b) == (a + b) % (Cofactor * P)
\* TargetField::pow(s.into_bigint())
GtPow(a, s) == (a * s) % (Cofactor * P)
\* E::miller_loop: a value of the whole field, not yet in the subgroup
miller_loop(a, b) == (a * b) % (Cofactor * P)
\* E::final_exponentiation: the power Cofactor, onto the subgroup of order P
final_exponentiation(f) == (Cofactor * f) % (Cofactor * P)
\* E::pairing: miller_loop followed by final_exponentiation
Pairing(a, b) == final_exponentiation(miller_loop(a, b))

\* VariableBaseMSM::msm_unchecked: the slices are cut to the shorter length.
RECURSIVE msm_prefix(_, _, _)
msm_prefix(bases, scalars, k) ==
    IF k = 0 THEN 0
    ELSE Add(msm_prefix(bases, scalars, k - 1), Mul(bases[k], scalars[k]))
msm_unchecked(bases, scalars) ==
    msm_prefix(bases, scalars, Min(Len(bases), Len(scalars)))

\* All sequences over S of length exactly k / at most k.
SeqsOfLen(S, k) == [1 .. k -> S]
SeqsUpTo(S, k) == UNION {SeqsOfLen(S, j) : j \in 0 .. k}

(* ---------------- results ---------------- *)
Ok(v) == [tag |-> "Ok", val |-> v, err |-> "", needed |-> 0, got |-> 0]
Err(e) == [tag |-> "Err", val |-> FALSE, err |-> e, needed |-> 0, got |-> 0]
\* SignatureError::InsufficientShares { needed, got }
InsufficientShares(n, g) ==
    [tag |-> "Err", val |-> FALSE, err |-> "InsufficientShares", needed |-> n, got |-> g]
\* A panic (index out of bounds, failed expect/assert): no value is returned.
Panic == [tag |-> "Panic", val |-> FALSE, err |-> "panic", needed |-> 0, got |-> 0]

(* ---------------- shamir.rs ---------------- *)
\* Horner evaluation of the polynomial with the given coefficients at x.
RECURSIVE horner(_, _, _)
horner(coefficients, x, j) ==
    IF j = Len(coefficients) THEN coefficients[j]
    ELSE FAdd(FMul(horner(coefficients, x, j + 1), x), coefficients[j])

\* Mutant: the polynomial evaluated at 0..n-1 instead of 1..n.
generate_shares_shifted(secret, threshold, num_shares, rand) ==
    LET coefficients == <<secret>> \o rand
    IN [i \in 1 .. num_shares |-> <<i, horner(coefficients, FromU64(i - 1), 1)>>]

\* generate_shares(secret, threshold, num_shares, rng); rand is the sequence
\* of threshold-1 coefficients a_1..a_{t-1} the rng returns.
generate_shares(secret, threshold, num_shares, rand) ==
    LET coefficients == <<secret>> \o rand
    IN [i \in 1 .. num_shares |-> <<i, horner(coefficients, FromU64(i), 1)>>]

(* ---------------- symmetric_commitment.rs: key ---------------- *)
\* SymmetricCommitmentKey::new(y_values, rng); g and g_tilde are the rng's points.
SymmetricCommitmentKey_new(y_values, g, g_tilde) ==
    [g |-> g,
     ck |-> [k \in 1 .. Len(y_values) |-> Mul(g, y_values[k])],
     g_tilde |-> g_tilde,
     ck_tilde |-> [k \in 1 .. Len(y_values) |-> Mul(g_tilde, y_values[k])]]

\* SymmetricCommitmentKey::get_bases().0
get_bases(ck) == Append(ck.ck, ck.g)

(* ---------------- keygen.rs ---------------- *)
\* keygen(t, n, l, rng).  The rng's draws: x, its polynomial coefficients,
\* y_1..y_l, their polynomial coefficients, and the generators g, g_tilde.
keygen(t, n, l, x, x_rand, y_values, y_rand, g, g_tilde) ==
    LET x_shares == generate_shares(x, t, n, x_rand)
        y_shares_by_k == [k \in 1 .. l |-> generate_shares(y_values[k], t, n, y_rand[k])]
        ck == SymmetricCommitmentKey_new(y_values, g, g_tilde)
        vk == [g_tilde_x |-> Mul(ck.g_tilde, x)]
        sk_shares == [i \in 1 .. n |->
                        [index |-> x_shares[i][1],
                         x_share |-> x_shares[i][2],
                         y_shares |-> [k \in 1 .. l |-> y_shares_by_k[k][i][2]]]]
        vk_shares == [i \in 1 .. n |->
                        [index |-> x_shares[i][1],
                         g_tilde_x_share |-> Mul(ck.g_tilde, x_shares[i][2]),
                         g_tilde_y_shares |->
                             [k \in 1 .. l |-> Mul(ck.g_tilde, y_shares_by_k[k][i][2])]]]
    IN [ck |-> ck, vk |-> vk, t |-> t, n |-> n, l |-> l,
        sk_shares |-> sk_shares, vk_shares |-> vk_shares,
        \* the dealer's secrets, kept to state the correctness properties
        x |-> x, y |-> y_values]

(* ---------------- serialization ---------------- *)
\* serialize_compressed of a CommitmentProof: the canonical encoding of its
\* five fields.  Byte strings that are no such encoding are Garbage.
serialize_compressed(proof) ==
    [wellformed |-> TRUE,
     commitment |-> proof.commitment,
     schnorr_commitment |-> proof.schnorr_commitment,
     bases |-> proof.bases,
     challenge |-> proof.challenge,
     responses |-> proof.responses]
Garbage ==
    [wellformed |-> FALSE, commitment |-> 0, schnorr_commitment |-> 0,
     bases |-> <<>>, challenge |-> 0, responses |-> <<>>]
\* CanonicalDeserialize::deserialize_compressed::<CommitmentProof>
deserialize_compressed(bytes) ==
    IF bytes.wellformed
    THEN Ok([commitment |-> bytes.commitment,
             schnorr_commitment |-> bytes.schnorr_commitment,
             bases |-> bytes.bases,
             challenge |-> bytes.challenge,
             responses |-> bytes.responses])
    ELSE Err("SerializationError")

(* ---------------- schnorr.rs ---------------- *)
\* SchnorrProtocol::commit(public_generators, rng); random_blindings are the
\* rng's draws, one per generator.
SchnorrProtocol_commit(public_generators, random_blindings) ==
    [random_blindings |-> random_blindings,
     commited_blindings |-> msm_unchecked(public_generators, random_blindings)]

\* SchnorrProtocol::prove with the challenge left out of the responses.
SchnorrProtocol_prove_unscaled(commitment, witnesses, challenge) ==
    [j \in 1 .. Min(Len(commitment.random_blindings), Len(witnesses)) |->
        FAdd(commitment.random_blindings[j], witnesses[j])]

\* SchnorrProtocol::prove: z_i = t_i + e * m_i over the zip of both vectors.
SchnorrProtocol_prove(commitment, witnesses, challenge) ==
    [j \in 1 .. Min(Len(commitment.random_blindings), Len(witnesses)) |->
        FAdd(commitment.random_blindings[j], FMul(witnesses[j], challenge))]

\* SchnorrProtocol::verify_schnorr
verify_schnorr(public_generators, statement, schnorr_commitment, schnorr_responses, challenge) ==
    LET lhs == msm_unchecked(public_generators, schnorr_responses)
        rhs == Add(schnorr_commitment, Mul(statement, challenge))
    IN lhs = rhs

\* SchnorrProtocol::verify: the same equation on a SchnorrCommitment
SchnorrProtocol_verify(public_generators, statement, blinding_commitment, schnorr_responses, challenge) ==
    LET lhs == msm_unchecked(public_generators, schnorr_responses)
        rhs == Add(blinding_commitment.commited_blindings, Mul(statement, challenge))
    IN lhs = rhs

(* ---------------- commitment.rs ---------------- *)
\* Commitment::new(h, g, m, Some(r))
Commitment_new(h, g, m, r) ==
    [bases |-> <<h, g>>, exponents |-> <<m, r>>, cm |-> Add(Mul(h, m), Mul(g, r))]

\* Commitment::prove(self, rng): the rng gives the Schnorr blindings and then
\* the challenge.
Commitment_prove(self, random_blindings, challenge) ==
    LET schnorr_commitment == SchnorrProtocol_commit(self.bases, random_blindings)
        responses == SchnorrProtocol_prove(schnorr_commitment, self.exponents, challenge)
    IN serialize_compressed(
         [bases |-> self.bases,
          commitment |-> self.cm,
          schnorr_commitment |-> schnorr_commitment.commited_blindings,
          challenge |-> challenge,
          responses |-> responses])

\* Commitment::verify(serialized_proof)
Commitment_verify(serialized_proof) ==
    LET d == deserialize_compressed(serialized_proof)
        proof == d.val
    IN IF d.tag # "Ok" THEN Err("SerializationError")
       ELSE Ok(verify_schnorr(proof.bases, proof.commitment, proof.schnorr_commitment,
                              proof.responses, proof.challenge))

\* The left MSM of batch_verify: every base of every proof, scaled by
\* responses[base_idx] * random_scalars[i].
RECURSIVE batch_lhs(_, _, _)
batch_lhs(proofs, random_scalars, i) ==
    IF i = 0 THEN 0
    ELSE LET proof == proofs[i]
             scaled == [j \in 1 .. Len(proof.bases) |->
                           FMul(proof.responses[j], random_scalars[i])]
         IN Add(batch_lhs(proofs, random_scalars, i - 1),
                msm_unchecked(proof.bases, scaled))

\* The right MSM of batch_verify: T_i with random_scalars[i] and C_i with
\* random_scalars[i] * challenge_i.
RECURSIVE batch_rhs(_, _, _)
batch_rhs(proofs, random_scalars, i) ==
    IF i = 0 THEN 0
    ELSE LET proof == proofs[i]
         IN Add(batch_rhs(proofs, random_scalars, i - 1),
                Add(Mul(proof.schnorr_commitment, random_scalars[i]),
                    Mul(proof.commitment, FMul(random_scalars[i], proof.challenge))))

\* batch_verify(serialized_proofs, rng); random_scalars are the rng's draws
\* (E::ScalarField::rand, one per proof).  proof.responses[base_idx] panics
\* when a proof has fewer responses than bases.
batch_verify(serialized_proofs, random_scalars) ==
    IF Len(serialized_proofs) = 0 THEN Ok(TRUE)
    ELSE IF \E i \in 1 .. Len(serialized_proofs) :
                deserialize_compressed(serialized_proofs[i]).tag # "Ok"
    THEN Err("SerializationError")
    ELSE LET deserialized_proofs ==
                 [i \in 1 .. Len(serialized_proofs) |->
                     deserialize_compressed(serialized_proofs[i]).val]
         IN IF \E i \in 1 .. Len(deserialized_proofs) :
                   Len(deserialized_proofs[i].responses) < Len(deserialized_proofs[i].bases)
            THEN Panic
            ELSE Ok(batch_lhs(deserialized_proofs, random_scalars, Len(deserialized_proofs))
                    = batch_rhs(deserialized_proofs, random_scalars, Len(deserialized_proofs)))

(* ---------------- pairing.rs ---------------- *)
\* PairingCheck::new
PairingCheck_new == [left |-> GtOne, right |-> GtOne, non_randomized |-> 0]

\* The product of the miller loops of the pairs (a_i * coeff, b_i).
RECURSIVE miller_product(_, _, _)
miller_product(it, coeff, k) ==
    IF k = 0 THEN GtOne
    ELSE GtMul(miller_product(it, coeff, k - 1), miller_loop(Mul(it[k][1], coeff), it[k][2]))

\* PairingCheck::rand(rng, it, out); coeff is what rand_fr returns.
PairingCheck_rand(coeff, it, out) ==
    [left |-> miller_product(it, coeff, Len(it)),
     right |-> IF out # GtOne THEN GtPow(out, coeff) ELSE out,
     non_randomized |-> 0]

\* mul_if_not_one(left, right): the new value of left.
mul_if_not_one(left, right) ==
    IF left = GtOne THEN right
    ELSE IF right = GtOne THEN left
    ELSE GtMul(left, right)

\* Width of the non_randomized counter (u8).
U8Modulus == 256

\* PairingCheck::merge(self, p2): the new value of self.
PairingCheck_merge(self, p2) ==
    [left |-> mul_if_not_one(self.left, p2.left),
     right |-> mul_if_not_one(self.right, p2.right),
     non_randomized |-> (self.non_randomized + p2.non_randomized) % U8Modulus]

\* PairingCheck::verify
PairingCheck_verify(self) ==
    IF self.non_randomized > 1 THEN FALSE
    ELSE final_exponentiation(self.left) = self.right

\* rand_fr: loops until the rng returns a nonzero scalar.
RandFr == Fr \ {0}

\* verify_pairing_equation(pairs, None); coeff is the draw of rand_fr.
verify_pairing_equation(pairs, coeff) ==
    PairingCheck_verify(PairingCheck_rand(coeff, pairs, GtOne))

(* ---------------- symmetric_commitment.rs ---------------- *)
\* g1_commit / g2_commit: msm over the first |messages| bases plus r * g.
\* The assert on messages.len() <= ck.len() is a precondition of every call here.
g1_commit(ck, messages, r) ==
    Add(msm_unchecked(SubSeq(ck.ck, 1, Len(messages)), messages), Mul(ck.g, r))
g2_commit(ck, messages, r) ==
    Add(msm_unchecked(SubSeq(ck.ck_tilde, 1, Len(messages)), messages), Mul(ck.g_tilde, r))

\* SymmetricCommitment::new(ck, messages, r)
SymmetricCommitment_new(ck, messages, r) ==
    [ck |-> ck, messages |-> messages, r |-> r,
     cm |-> g1_commit(ck, messages, r),
     cm_tilde |-> g2_commit(ck, messages, r)]

\* Mutant: the new blinding is recorded but the two points are left as they are.
SymmetricCommitment_randomize_points_kept(self, r_delta) ==
    [ck |-> self.ck, messages |-> self.messages,
     r |-> FAdd(self.r, r_delta),
     cm |-> self.cm,
     cm_tilde |-> self.cm_tilde]

\* Mutant: only the G1 point is moved; the G2 point is left as it is.
SymmetricCommitment_randomize_g1_only(self, r_delta) ==
    [ck |-> self.ck, messages |-> self.messages,
     r |-> FAdd(self.r, r_delta),
     cm |-> Add(self.cm, Mul(self.ck.g, r_delta)),
     cm_tilde |-> self.cm_tilde]

\* SymmetricCommitment::randomize(r_delta)
SymmetricCommitment_randomize(self, r_delta) ==
    [ck |-> self.ck, messages |-> self.messages,
     r |-> FAdd(self.r, r_delta),
     cm |-> Add(self.cm, Mul(self.ck.g, r_delta)),
     cm_tilde |-> Add(self.cm_tilde, Mul(self.ck.g_tilde, r_delta))]

\* SymmetricCommitment::get_exponents
get_exponents(self) == Append(self.messages, self.r)

\* SymmetricCommitment::prove(self, rng)
SymmetricCommitment_prove(self, random_blindings, challenge) ==
    LET bases == get_bases(self.ck)
        schnorr_commitment == SchnorrProtocol_commit(bases, random_blindings)
        responses == SchnorrProtocol_prove(schnorr_commitment, get_exponents(self), challenge)
    IN serialize_compressed(
         [commitment |-> self.cm,
          schnorr_commitment |-> schnorr_commitment.commited_blindings,
          bases |-> bases,
          challenge |-> challenge,
          responses |-> responses])

\* SymmetricCommitment::verify(serialized_proof)
SymmetricCommitment_verify(serialized_proof) ==
    LET d == deserialize_compressed(serialized_proof)
        proof == d.val
    IN IF d.tag # "Ok" THEN Err("SerializationError")
       ELSE Ok(verify_schnorr(proof.bases, proof.commitment, proof.schnorr_commitment,
                              proof.responses, proof.challenge))

(* ---------------- signer.rs ---------------- *)
\* The sum h^[x]_i + sum_k cm_k^[y_k]_i over k < y_shares.len().
RECURSIVE share_sigma(_, _, _, _)
share_sigma(sk_share, commitments, h, k) ==
    IF k = 0 THEN Mul(h, sk_share.x_share)
    ELSE Add(share_sigma(sk_share, commitments, h, k - 1),
             Mul(commitments[k], sk_share.y_shares[k]))

\* Signer::sign_share(commitments, commitment_proofs, h, rng); random_scalars
\* are the draws batch_verify makes from rng.
sign_share(self, commitments, commitment_proofs, h, random_scalars) ==
    LET valid == batch_verify(commitment_proofs, random_scalars)
    IN IF valid.tag # "Ok" THEN valid
       ELSE IF ~valid.val THEN Err("BatchVerifyError")
       ELSE Ok([party_index |-> self.sk_share.index,
                h |-> h,
                sigma |-> share_sigma(self.sk_share, commitments, h,
                                      Min(Len(commitments), Len(self.sk_share.y_shares)))])

\* Signer::new over the i-th key shares of keygen's output.
Signer_new(ks, i) == [ck |-> ks.ck, sk_share |-> ks.sk_shares[i], vk_share |-> ks.vk_shares[i]]

(* ---------------- signature.rs ---------------- *)
\* compute_lagrange_coefficient(indices, j): the product over the entries
\* i # j of (0 - i) / (j - i); colliding field values make inverse() fail.
RECURSIVE lagrange_prefix(_, _, _)
lagrange_prefix(indices, j, k) ==
    IF k = 0 THEN 1
    ELSE IF indices[k] = j THEN lagrange_prefix(indices, j, k - 1)
    ELSE LET i_field == FromU64(indices[k])
             numerator == FSub(0, i_field)
             denominator == FSub(FromU64(j), i_field)
         IN FMul(lagrange_prefix(indices, j, k - 1),
                 FMul(numerator, Inverse(denominator).v))
\* Mutant: the numerator x_i instead of (0 - x_i).
RECURSIVE lagrange_prefix_uncorrected(_, _, _)
lagrange_prefix_uncorrected(indices, j, k) ==
    IF k = 0 THEN 1
    ELSE IF indices[k] = j THEN lagrange_prefix_uncorrected(indices, j, k - 1)
    ELSE LET i_field == FromU64(indices[k])
             denominator == FSub(FromU64(j), i_field)
         IN FMul(lagrange_prefix_uncorrected(indices, j, k - 1),
                 FMul(i_field, Inverse(denominator).v))
compute_lagrange_coefficient_uncorrected(indices, j) ==
    lagrange_prefix_uncorrected(indices, j, Len(indices))
compute_lagrange_coefficient(indices, j) == lagrange_prefix(indices, j, Len(indices))

\* The interpolation loop of aggregate_signature_shares over the first k
\* entries of sigma_2_components.
RECURSIVE interpolate(_, _, _)
interpolate(indices, sigma_2_components, k) ==
    IF k = 0 THEN 0
    ELSE LET i == sigma_2_components[k][1]
             sigma_i_2 == sigma_2_components[k][2]
             lagrange_i == compute_lagrange_coefficient(indices, i)
         IN Add(interpolate(indices, sigma_2_components, k - 1), Mul(sigma_i_2, lagrange_i))

\* Mutant: the two fields of InsufficientShares filled the other way round.
check_enough_shares_swapped(len, threshold) ==
    IF len < threshold
    THEN [tag |-> "Err", val |-> FALSE, err |-> "InsufficientShares",
          needed |-> len, got |-> threshold]
    ELSE [tag |-> "None", val |-> FALSE, err |-> "", needed |-> 0, got |-> 0]

\* The threshold check of aggregate_signature_shares: the error it returns,
\* or NoError when there are enough shares.
NoError == [tag |-> "None", val |-> FALSE, err |-> "", needed |-> 0, got |-> 0]
check_enough_shares(len, threshold) ==
    IF len < threshold THEN InsufficientShares(threshold, len) ELSE NoError

\* ThresholdSignature::aggregate_signature_shares(ck, signature_shares,
\* blindings, threshold, h)
aggregate_signature_shares(ck, signature_shares, blindings, threshold, h) ==
    IF check_enough_shares(Len(signature_shares), threshold) # NoError
    THEN check_enough_shares(Len(signature_shares), threshold)
    ELSE LET indices == [s \in 1 .. Len(signature_shares) |->
                            signature_shares[s][2].party_index]
             sigma_2_components ==
                 [s \in 1 .. Len(signature_shares) |->
                     <<signature_shares[s][2].party_index, signature_shares[s][2].sigma>>]
             sigma_2 == interpolate(indices, sigma_2_components, threshold)
             g_k_r_k == Neg(msm_unchecked(ck.ck, blindings))
         IN Ok([h |-> h, sigma |-> Add(sigma_2, g_k_r_k)])

\* Mutant: the r_delta * h term is left out of sigma'.
randomize_with_factors_without_r(self, u_delta, r_delta) ==
    [h |-> Mul(self.h, u_delta), sigma |-> Mul(self.sigma, u_delta)]

\* ThresholdSignature::randomize_with_factors(u_delta, r_delta)
randomize_with_factors(self, u_delta, r_delta) ==
    [h |-> Mul(self.h, u_delta),
     sigma |-> Mul(Add(Mul(self.h, r_delta), self.sigma), u_delta)]

\* ThresholdSignature::verify(ck, vk, cm, cm_tilde, sig, serialized_proof);
\* coeff1 and coeff2 are the two draws of rand_fr from the verifier's rng.
ThresholdSignature_verify(ck, vk, cm, cm_tilde, sig, serialized_proof, coeff1, coeff2) ==
    LET vk_plus_cm_tilde == Add(vk.g_tilde_x, cm_tilde)
        check1 == PairingCheck_rand(coeff1,
                      <<<<sig.sigma, ck.g_tilde>>, <<Neg(sig.h), vk_plus_cm_tilde>>>>, GtOne)
        check2 == PairingCheck_rand(coeff2,
                      <<<<cm, ck.g_tilde>>, <<Neg(ck.g), cm_tilde>>>>, GtOne)
        final_check == PairingCheck_merge(PairingCheck_merge(PairingCheck_new, check1), check2)
        is_valid == PairingCheck_verify(final_check)
    IN IF ~is_valid THEN Err("SignatureVerificationFailed") ELSE Ok(is_valid)

\* VerifierProtocol::verify
VerifierProtocol_verify(commitment_key, verification_key, commitment, commitment_tilde, signature, proof, coeff1, coeff2) ==
    ThresholdSignature_verify(commitment_key, verification_key, commitment,
                              commitment_tilde, signature, proof, coeff1, coeff2)

(* ---------------- user.rs ---------------- *)
\* User::verify_signature_share(commitment_key, vk_share, commitments,
\* commitment_proofs, sig_share, rng); coeff is the pairing check's draw.
verify_signature_share(commitment_key, vk_share, commitments, commitment_proofs, sig_share, random_scalars, coeff) ==
    LET valid == batch_verify(commitment_proofs, random_scalars)
        n_pairs == Min(Len(commitments), Len(vk_share.g_tilde_y_shares))
        pairs == <<<<Neg(sig_share.sigma), commitment_key.g_tilde>>,
                   <<sig_share.h, vk_share.g_tilde_x_share>>>>
                 \o [k \in 1 .. n_pairs |-> <<commitments[k], vk_share.g_tilde_y_shares[k]>>]
    IN IF valid.tag # "Ok" THEN valid
       ELSE IF ~valid.val THEN Err("BatchVerifyError")
       ELSE Ok(verify_pairing_equation(pairs, coeff))

(* ---------------- signature.rs: verify_share ---------------- *)
\* ThresholdSignature::verify_share with sigma_i left un-negated.
verify_share_not_negated(ck, vk_share, commitments, sig_share, coeff) ==
    LET n_pairs == Min(Len(commitments), Len(vk_share.g_tilde_y_shares))
        pairs == <<<<sig_share.sigma, ck.g_tilde>>,
                   <<sig_share.h, vk_share.g_tilde_x_share>>>>
                 \o [k \in 1 .. n_pairs |-> <<commitments[k], vk_share.g_tilde_y_shares[k]>>]
    IN verify_pairing_equation(pairs, coeff)

\* ThresholdSignature::verify_share(ck, vk_share, commitments, sig_share);
\* coeff is the pairing check's draw.
verify_share(ck, vk_share, commitments, sig_share, coeff) ==
    LET n_pairs == Min(Len(commitments), Len(vk_share.g_tilde_y_shares))
        pairs == <<<<Neg(sig_share.sigma), ck.g_tilde>>,
                   <<sig_share.h, vk_share.g_tilde_x_share>>>>
                 \o [k \in 1 .. n_pairs |-> <<commitments[k], vk_share.g_tilde_y_shares[k]>>]
    IN verify_pairing_equation(pairs, coeff)

(* ---------------- user.rs: process_signature_shares ---------------- *)
\* The loop of User::process_signature_shares over the first k entries:
\* Ok(valid_shares) so far, or the error (or panic) that ended it.  Every
\* call of verify_signature_share gets a fresh test_rng(), hence the same
\* draws random_scalars and coeff.
RECURSIVE process_prefix(_, _, _, _, _, _, _, _)
process_prefix(commitment_key, vk_shares, commitments, commitment_proofs, signature_shares, random_scalars, coeff, k) ==
    IF k = 0 THEN Ok(<<>>)
    ELSE LET before == process_prefix(commitment_key, vk_shares, commitments,
                                      commitment_proofs, signature_shares,
                                      random_scalars, coeff, k - 1)
             i == signature_shares[k][1]
             sig_share == signature_shares[k][2]
             found == {v \in 1 .. Len(vk_shares) : vk_shares[v].index = i}
         IN IF before.tag # "Ok" THEN before
            ELSE IF found = {} THEN Err("InvalidState")
            ELSE LET vk_share == vk_shares[CHOOSE v \in found : \A w \in found : v <= w]
                     is_valid == verify_signature_share(commitment_key, vk_share, commitments,
                                                        commitment_proofs, sig_share,
                                                        random_scalars, coeff)
                 IN IF is_valid.tag # "Ok" THEN is_valid
                    ELSE IF is_valid.val THEN Ok(Append(before.val, signature_shares[k]))
                    ELSE before

\* User::process_signature_shares
process_signature_shares(commitment_key, vk_shares, commitments, commitment_proofs, signature_shares, threshold, random_scalars, coeff) ==
    LET valid_shares == process_prefix(commitment_key, vk_shares, commitments,
                                       commitment_proofs, signature_shares,
                                       random_scalars, coeff, Len(signature_shares))
    IN IF valid_shares.tag # "Ok" THEN valid_shares
       ELSE IF Len(valid_shares.val) < threshold
       THEN InsufficientShares(threshold + 1, Len(valid_shares.val))
       ELSE valid_shares

\* UserProtocol::verify_signature_shares
verify_signature_shares(commitment_key, vk_shares, credential_request, signature_shares, threshold, random_scalars, coeff) ==
    process_signature_shares(commitment_key, vk_shares, credential_request.commitments, credential_request.proofs, signature_shares, threshold, random_scalars, coeff)

(* ---------------- credential.rs ---------------- *)
NoSignature == [some |-> FALSE, h |-> 0, sigma |-> 0]
Some(sig) == [some |-> TRUE, h |-> sig.h, sigma |-> sig.sigma]

\* Credential::new(ck, Some(messages), rng); h is the rng's point.
Credential_new(ck, messages, h) ==
    [ck |-> ck,
     cm |-> SymmetricCommitment_new(ck, messages, 0),
     messages |-> messages,
     blindings |-> <<>>,
     h |-> h,
     sig |-> NoSignature,
     state |-> "Initialized"]

\* Credential::set_attributes(messages): the credential afterwards.
set_attributes(self, messages) == [self EXCEPT !.messages = messages]

\* Credential::set_symmetric_commitment(): the credential afterwards.
set_symmetric_commitment(self) ==
    [self EXCEPT !.cm = SymmetricCommitment_new(self.ck, self.messages, 0)]

\* Credential::compute_commitments_per_m(rng): the credential afterwards and
\* the returned CredentialCommitments.  blindings are the rng's first draws,
\* then each proof draws its Schnorr blindings and its challenge.
compute_commitments_per_m(self, blindings, proof_blindings, challenges) ==
    IF Len(self.messages) = 0
    THEN [cred |-> self, out |-> Err("InvalidComputeCommitment"),
          h |-> self.h, commitments |-> <<>>, proofs |-> <<>>]
    ELSE LET num_messages == Len(self.messages)
             commitments == [i \in 1 .. num_messages |->
                                Add(Mul(self.h, self.messages[i]), Mul(self.ck.g, blindings[i]))]
             proofs == [i \in 1 .. num_messages |->
                           Commitment_prove(
                               [bases |-> <<self.h, self.ck.g>>,
                                exponents |-> <<self.messages[i], blindings[i]>>,
                                cm |-> commitments[i]],
                               proof_blindings[i], challenges[i])]
         IN [cred |-> [self EXCEPT !.blindings = blindings, !.state = "Committed"],
             out |-> Ok(TRUE),
             h |-> self.h, commitments |-> commitments, proofs |-> proofs]

\* Credential::attach_signature(sig)
attach_signature(self, sig) == [self EXCEPT !.state = "Signed", !.sig = Some(sig)]

\* Credential::show(&self, rng): Err(InvalidState) unless Signed; otherwise
\* the presentation (randomized_sig, cm, cm_tilde, proof).  The rng gives
\* u_delta, r_delta, the Schnorr blindings and the challenge.
NoPresentation ==
    [sig |-> [h |-> 0, sigma |-> 0], cm |-> 0, cm_tilde |-> 0, proof |-> Garbage]
\* Mutant: show without the check of the state.
show_unchecked(self, u_delta, r_delta, random_blindings, challenge) ==
    LET randomized_sig == randomize_with_factors(self.sig, u_delta, r_delta)
        rand_sym_cm == SymmetricCommitment_randomize(self.cm, r_delta)
        proof == SymmetricCommitment_prove(rand_sym_cm, random_blindings, challenge)
    IN [out |-> Ok(TRUE),
        pres |-> [sig |-> [h |-> randomized_sig.h, sigma |-> randomized_sig.sigma],
                  cm |-> rand_sym_cm.cm, cm_tilde |-> rand_sym_cm.cm_tilde,
                  proof |-> proof]]
show(self, u_delta, r_delta, random_blindings, challenge) ==
    IF self.state # "Signed"
    THEN [out |-> Err("InvalidState"), pres |-> NoPresentation]
    ELSE LET randomized_sig == randomize_with_factors(self.sig, u_delta, r_delta)
             rand_sym_cm == SymmetricCommitment_randomize(self.cm, r_delta)
             proof == SymmetricCommitment_prove(rand_sym_cm, random_blindings, challenge)
         IN [out |-> Ok(TRUE),
             pres |-> [sig |-> [h |-> randomized_sig.h, sigma |-> randomized_sig.sigma],
                       cm |-> rand_sym_cm.cm, cm_tilde |-> rand_sym_cm.cm_tilde,
                       proof |-> proof]]

(***************************************************************************)
(* State.                                                                  *)
(***************************************************************************)
VARIABLES
    keys,     \* keygen's output (CK, VK, key shares)
    cred,     \* the user's Credential
    req,      \* the CredentialCommitments sent to the signers (h, {cm_k}, {pi_k})
    shares,   \* the (usize, PartialSignature) list the user has collected
    agg,      \* the result of aggregate_signature_shares
    pres,     \* a presentation (sigma_rand, C_rand, C~_rand, pi_sym) on the wire
    out,      \* the result of the last verifier / signer / user call
    wits,     \* for each proof of req.proofs, the opening its author holds (<<>>: none)
    shown,    \* the presentations Credential::show has returned, with their draws
    check,    \* a PairingCheck accumulator and the contributions merged into it
    vrf,      \* a DYPFPrivVRF instance with a witness, its commitments, output and proof
    schnorr,  \* a run of SchnorrProtocol: bases, witnesses, commitment, challenge, responses
    ver,      \* the share verifications made: which share against which key share
    par,      \* the parallel sign_share calls of collect_signature_shares and their results
    sym,      \* a SymmetricCommitment after new and after each randomize, with the r' used
    pc        \* position in the protocol run

vars == <<keys, cred, req, shares, agg, pres, out, wits, shown, check, vrf, schnorr, ver, par, sym, pc>>

\* The values of keys, check, vrf and schnorr where no such object exists.
NoCheck == [acc |-> [left |-> 0, right |-> 0, non_randomized |-> 0], total |-> 0]
NoKeys == [some |-> FALSE]
NoVrf == [some |-> FALSE]
NoSchnorr == [some |-> FALSE]
NoVer == <<>>
NoCalls == <<>>
NoCommitments == [hist |-> <<>>, deltas |-> <<>>]

\* A returned presentation together with the two scalars randomize drew for it.
ShownWith(self, presentation, u_delta, r_delta) ==
    [sig |-> presentation.sig, cm |-> presentation.cm, cm_tilde |-> presentation.cm_tilde,
     u_delta |-> u_delta, r_delta |-> r_delta, of_sig |-> self.sig, of_cm |-> self.cm.cm]

NoCredential ==
    [ck |-> [g |-> 0, ck |-> <<>>, g_tilde |-> 0, ck_tilde |-> <<>>],
     cm |-> [ck |-> [g |-> 0, ck |-> <<>>, g_tilde |-> 0, ck_tilde |-> <<>>],
             messages |-> <<>>, r |-> 0, cm |-> 0, cm_tilde |-> 0],
     messages |-> <<>>, blindings |-> <<>>, h |-> 0, sig |-> NoSignature, state |-> "None"]
NoRequest == [h |-> 0, commitments |-> <<>>, proofs |-> <<>>]
NoResult == NoError

(***************************************************************************)
(* Spec: issuance.  IssuerProtocol::setup, UserProtocol::request_credential,*)
(* the signers' sign_share calls and UserProtocol::aggregate_shares.        *)
(***************************************************************************)
\* State after IssuerProtocol::setup(t, MaxN, MaxL) for the thresholds in ts.
SetupStates(ts) ==
    \E t \in ts, x \in Draws, y_values \in SeqsOfLen(Draws, MaxL),
       g \in NonZeroDraws, g_tilde \in NonZeroDraws :
      \E x_rand \in SeqsOfLen(Draws, t - 1),
         y_rand \in SeqsOfLen(SeqsOfLen(Draws, t - 1), MaxL) :
        keys = keygen(t, MaxN, MaxL, x, x_rand, y_values, y_rand, g, g_tilde)

Init ==
    /\ sym = NoCommitments
    /\ par = NoCalls
    /\ ver = NoVer
    /\ SetupStates(1 .. MaxN)
    /\ cred = NoCredential
    /\ req = NoRequest
    /\ shares = <<>>
    /\ agg = NoResult
    /\ pres = NoPresentation
    /\ out = NoResult
    /\ wits = <<>>
    /\ shown = <<>>
    /\ check = NoCheck
    /\ vrf = NoVrf
    /\ schnorr = NoSchnorr
    /\ pc = "setup"

\* UserProtocol::request_credential(ck, Some(attributes), rng)
RequestCredential ==
    /\ pc = "setup"
    /\ \E attributes \in SeqsOfLen(Draws, keys.l), h \in PointDraws,
          blindings \in SeqsOfLen(Draws, keys.l),
          proof_blindings \in SeqsOfLen(SeqsOfLen(Draws, 2), keys.l),
          challenges \in SeqsOfLen(Draws, keys.l) :
         LET credential == Credential_new(keys.ck, attributes, h)
             r == compute_commitments_per_m(credential, blindings, proof_blindings, challenges)
         IN /\ cred' = r.cred
            /\ req' = [h |-> r.h, commitments |-> r.commitments, proofs |-> r.proofs]
            /\ wits' = [k \in 1 .. keys.l |-> <<attributes[k], blindings[k]>>]
    /\ pc' = "requested"
    /\ UNCHANGED <<keys, shares, agg, pres, out, shown, check, vrf, schnorr, ver, par, sym>>

\* Signer i answers the request (IssuerProtocol::issue_share); the user
\* appends (party_index, share) to the list, as collect_signature_shares does.
SignShare ==
    /\ pc = "requested"
    /\ Len(shares) < MaxShares
    /\ \E i \in 1 .. keys.n, random_scalars \in SeqsOfLen(Draws, Len(req.proofs)) :
         LET r == sign_share(Signer_new(keys, i), req.commitments, req.proofs, req.h,
                             random_scalars)
         IN /\ out' = [r EXCEPT !.val = (r.tag = "Ok")]
            /\ shares' = IF r.tag = "Ok"
                         THEN Append(shares, <<r.val.party_index, r.val>>)
                         ELSE shares
    /\ UNCHANGED <<keys, cred, req, agg, pres, wits, pc, shown, check, vrf, schnorr, ver, par, sym>>

\* UserProtocol::aggregate_shares(ck, shares, blindings, threshold, h)
AggregateShares ==
    /\ pc = "requested"
    /\ agg' = aggregate_signature_shares(keys.ck, shares, cred.blindings, keys.t, req.h)
    /\ pc' = "aggregated"
    /\ UNCHANGED <<keys, cred, req, shares, pres, out, wits, shown, check, vrf, schnorr, ver, par, sym>>

Next == RequestCredential \/ SignShare \/ AggregateShares

Spec == Init /\ [][Next]_vars

(***************************************************************************)
(* SpecShow: presentation.  A credential that went through issuance with   *)
(* the first t signers is shown; the presentation travels over a wire an   *)
(* adversary controls and is then verified.                                *)
(***************************************************************************)
\* Largest threshold of the setups SpecShow starts from.
ShowMaxT == 2
\* The adversary adds 0..MaxDelta times the generator to a wire element.
MaxDelta == 1

\* UserProtocol::collect_signature_shares over the first `threshold` signers
\* of the setup; random_scalars[i] are the draws of signer i's batch_verify.
collect_signature_shares(ks, credential_request, threshold, random_scalars) ==
    LET taken == Min(threshold, ks.n)
        results == [i \in 1 .. taken |->
                       sign_share(Signer_new(ks, i), credential_request.commitments,
                                  credential_request.proofs, credential_request.h,
                                  random_scalars[i])]
    IN IF \E i \in 1 .. taken : results[i].tag # "Ok"
       THEN results[CHOOSE i \in 1 .. taken : results[i].tag # "Ok"]
       ELSE IF taken < threshold THEN InsufficientShares(threshold, taken)
       ELSE Ok([i \in 1 .. taken |-> <<results[i].val.party_index, results[i].val>>])

\* The credential after request_credential, collect_signature_shares,
\* aggregate_shares and attach_signature.
IssuedCredential(ks, attributes, h, blindings, proof_blindings, challenges, random_scalars) ==
    LET r == compute_commitments_per_m(Credential_new(ks.ck, attributes, h),
                                       blindings, proof_blindings, challenges)
        request == [h |-> r.h, commitments |-> r.commitments, proofs |-> r.proofs]
        collected == collect_signature_shares(ks, request, ks.t, random_scalars)
        signature == aggregate_signature_shares(ks.ck, collected.val, r.cred.blindings,
                                                ks.t, r.h)
    IN attach_signature(r.cred, signature.val)

ShowInit ==
    /\ sym = NoCommitments
    /\ par = NoCalls
    /\ ver = NoVer
    /\ SetupStates(1 .. Min(ShowMaxT, MaxN))
    /\ \E attributes \in SeqsOfLen(Draws, keys.l), h \in PointDraws,
          blindings \in SeqsOfLen(Draws, keys.l),
          proof_blindings \in SeqsOfLen(SeqsOfLen(Draws, 2), keys.l),
          challenges \in SeqsOfLen(Draws, keys.l),
          random_scalars \in SeqsOfLen(SeqsOfLen(Draws, keys.l), keys.t) :
         cred = IssuedCredential(keys, attributes, h, blindings, proof_blindings,
                                 challenges, random_scalars)
    /\ req = NoRequest
    /\ shares = <<>>
    /\ agg = NoResult
    /\ pres = NoPresentation
    /\ out = NoResult
    /\ wits = <<>>
    /\ shown = <<>>
    /\ check = NoCheck
    /\ vrf = NoVrf
    /\ schnorr = NoSchnorr
    /\ pc = "signed"

\* UserProtocol::show(credential, rng)
Show ==
    /\ pc = "signed"
    /\ \E u_delta \in Draws, r_delta \in Draws,
          random_blindings \in SeqsOfLen(Draws, Len(cred.ck.ck) + 1), challenge \in Draws :
         LET r == show(cred, u_delta, r_delta, random_blindings, challenge)
         IN /\ pres' = r.pres
            /\ out' = r.out
            /\ shown' = IF r.out.tag = "Ok"
                        THEN Append(shown, ShownWith(cred, r.pres, u_delta, r_delta))
                        ELSE shown
    /\ pc' = "shown"
    /\ UNCHANGED <<keys, cred, req, shares, agg, wits, check, vrf, schnorr, ver, par, sym>>

\* What the adversary does to the proof bytes on the wire.
TamperedProof(proof, how) ==
    CASE how = "keep" -> proof
      [] how = "garbage" -> Garbage
      [] how = "response" ->
            [proof EXCEPT !.responses = [j \in 1 .. Len(proof.responses) |->
                IF j = 1 THEN FAdd(proof.responses[j], 1) ELSE proof.responses[j]]]

\* The adversary changes the presentation on the wire: it shifts sigma_rand,
\* C_rand and C~_rand and replaces or alters the proof bytes.
Tamper ==
    /\ pc = "shown"
    /\ \E d_sigma \in 0 .. MaxDelta, d_cm \in 0 .. MaxDelta, d_cm_tilde \in 0 .. MaxDelta,
          how \in {"keep", "garbage", "response"} :
         /\ (d_sigma # 0 \/ d_cm # 0 \/ d_cm_tilde # 0 \/ how # "keep")
         /\ pres' = [sig |-> [h |-> pres.sig.h, sigma |-> Add(pres.sig.sigma, d_sigma % P)],
                     cm |-> Add(pres.cm, d_cm % P),
                     cm_tilde |-> Add(pres.cm_tilde, d_cm_tilde % P),
                     proof |-> TamperedProof(pres.proof, how)]
    /\ pc' = "tampered"
    /\ UNCHANGED <<keys, cred, req, shares, agg, out, wits, shown, check, vrf, schnorr, ver, par, sym>>

\* VerifierProtocol::verify(ck, vk, C_rand, C~_rand, sigma_rand, pi_sym)
Verify ==
    /\ pc \in {"shown", "tampered"}
    /\ \E coeff1 \in RandFr, coeff2 \in RandFr :
         out' = VerifierProtocol_verify(keys.ck, keys.vk, pres.cm, pres.cm_tilde,
                                        pres.sig, pres.proof, coeff1, coeff2)
    /\ pc' = "verified"
    /\ UNCHANGED <<keys, cred, req, shares, agg, pres, wits, shown, check, vrf, schnorr, ver, par, sym>>

ShowNext == Show \/ Tamper \/ Verify

SpecShow == ShowInit /\ [][ShowNext]_vars

(***************************************************************************)
(* SpecSign: a signer and the user's share check facing a request the      *)
(* sender may have altered.  The request (h, {cm_k}, {pi_k}) is made by     *)
(* request_credential; before it reaches sign_share or                      *)
(* verify_signature_share, commitments may be shifted and proofs dropped,   *)
(* replaced by garbage or altered.                                          *)
(***************************************************************************)
SignInit ==
    /\ sym = NoCommitments
    /\ par = NoCalls
    /\ ver = NoVer
    /\ SetupStates(1 .. Min(ShowMaxT, MaxN))
    /\ cred = NoCredential
    /\ req = NoRequest
    /\ shares = <<>>
    /\ agg = NoResult
    /\ pres = NoPresentation
    /\ out = NoResult
    /\ wits = <<>>
    /\ shown = <<>>
    /\ check = NoCheck
    /\ vrf = NoVrf
    /\ schnorr = NoSchnorr
    /\ pc = "setup"

\* The request is altered before it is handed on.
TamperRequest ==
    /\ pc = "requested"
    /\ \/ \E k \in 1 .. Len(req.commitments), d \in 1 .. MaxDelta :
            req' = [req EXCEPT !.commitments[k] = Add(@, d % P)]
       \/ req' = [req EXCEPT !.proofs = <<>>]
       \/ \E k \in 1 .. Len(req.proofs), how \in {"garbage", "response"} :
            req' = [req EXCEPT !.proofs[k] = TamperedProof(@, how)]
    /\ pc' = "altered"
    /\ UNCHANGED <<keys, cred, shares, agg, pres, out, wits, shown, check, vrf, schnorr, ver, par, sym>>

\* Signer 1 runs sign_share on the request it received.
SignerSigns ==
    /\ pc \in {"requested", "altered"}
    /\ \E random_scalars \in SeqsOfLen(Draws, Len(req.proofs)) :
         LET r == sign_share(Signer_new(keys, 1), req.commitments, req.proofs, req.h,
                             random_scalars)
         IN /\ out' = [r EXCEPT !.val = (r.tag = "Ok")]
            /\ shares' = IF r.tag = "Ok" THEN <<<<r.val.party_index, r.val>>>> ELSE <<>>
    /\ pc' = "share_signed"
    /\ UNCHANGED <<keys, cred, req, agg, pres, wits, shown, check, vrf, schnorr, ver, par, sym>>

\* The user runs User::verify_signature_share on the share it got back,
\* with the commitments and proofs it holds.
UserVerifiesShare ==
    /\ pc = "share_signed"
    /\ Len(shares) = 1
    /\ \E random_scalars \in SeqsOfLen(Draws, Len(req.proofs)), coeff \in RandFr :
         out' = verify_signature_share(keys.ck, keys.vk_shares[1], req.commitments,
                                       req.proofs, shares[1][2], random_scalars, coeff)
    /\ pc' = "share_verified"
    /\ UNCHANGED <<keys, cred, req, shares, agg, pres, wits, shown, check, vrf, schnorr, ver, par, sym>>

SignNext == RequestCredential \/ TamperRequest \/ SignerSigns \/ UserVerifiesShare

SpecSign == SignInit /\ [][SignNext]_vars

(***************************************************************************)
(* SpecProof: opening proofs and their verifiers.  Provers holding an      *)
(* opening and parties holding none put serialized proofs into a batch;    *)
(* the batch goes to batch_verify, its last proof to Commitment::verify or *)
(* SymmetricCommitment::verify.                                            *)
(***************************************************************************)
\* Longest batch of proofs.
MaxBatch == 2

ProofInit ==
    /\ sym = NoCommitments
    /\ par = NoCalls
    /\ ver = NoVer
    /\ SetupStates({1})
    /\ cred = NoCredential
    /\ \E h \in PointDraws : req = [h |-> h, commitments |-> <<>>, proofs |-> <<>>]
    /\ shares = <<>>
    /\ agg = NoResult
    /\ pres = NoPresentation
    /\ out = NoResult
    /\ wits = <<>>
    /\ shown = <<>>
    /\ check = NoCheck
    /\ vrf = NoVrf
    /\ schnorr = NoSchnorr
    /\ pc = "proving"

AppendProof(statement, proof, witness) ==
    /\ req' = [req EXCEPT !.commitments = Append(@, statement), !.proofs = Append(@, proof)]
    /\ wits' = Append(wits, witness)

\* A prover commits to m with blinding r over [h, g] and proves the opening
\* (Commitment::new, Commitment::prove).
ProveCommitment ==
    /\ pc = "proving" /\ Len(req.proofs) < MaxBatch
    /\ \E m \in Draws, r \in Draws, random_blindings \in SeqsOfLen(Draws, 2),
          challenge \in Draws :
         LET c == Commitment_new(req.h, keys.ck.g, m, r)
         IN AppendProof(c.cm, Commitment_prove(c, random_blindings, challenge), c.exponents)
    /\ UNCHANGED <<keys, cred, shares, agg, pres, out, pc, shown, check, vrf, schnorr, ver, par, sym>>

\* A prover proves the opening of a symmetric commitment
\* (SymmetricCommitment::new, SymmetricCommitment::prove).
ProveSymmetric ==
    /\ pc = "proving" /\ Len(req.proofs) < MaxBatch
    /\ \E messages \in SeqsOfLen(Draws, keys.l), r \in Draws,
          random_blindings \in SeqsOfLen(Draws, keys.l + 1), challenge \in Draws :
         LET c == SymmetricCommitment_new(keys.ck, messages, r)
         IN AppendProof(c.cm, SymmetricCommitment_prove(c, random_blindings, challenge),
                        get_exponents(c))
    /\ UNCHANGED <<keys, cred, shares, agg, pres, out, pc, shown, check, vrf, schnorr, ver, par, sym>>

\* A party that holds no opening of the point C assembles (C, T, bases, c, z)
\* from public values alone: it picks the challenge and the responses first
\* and sets T = sum_j z_j * B_j - c * C.  The bases travel inside the proof,
\* so it may name [h, g] or any others, such as the identity.
ForgeProof ==
    /\ pc = "proving" /\ Len(req.proofs) < MaxBatch
    /\ \E C \in Fr \ {0}, challenge \in NonZeroDraws, responses \in SeqsOfLen(Draws, 2),
          bases \in {<<req.h, keys.ck.g>>, <<0, 0>>} :
         LET T == Add(msm_unchecked(bases, responses), Neg(Mul(C, challenge)))
         IN AppendProof(C, serialize_compressed(
                               [commitment |-> C, schnorr_commitment |-> T,
                                bases |-> bases, challenge |-> challenge,
                                responses |-> responses]), <<>>)
    /\ UNCHANGED <<keys, cred, shares, agg, pres, out, pc, shown, check, vrf, schnorr, ver, par, sym>>

\* One response of the last proof is replaced by a different scalar.
CorruptProof ==
    /\ pc = "proving" /\ Len(req.proofs) >= 1
    /\ LET k == Len(req.proofs)
       IN \E j \in 1 .. Len(req.proofs[k].responses), d \in 1 .. MaxDelta :
            /\ d % P # 0
            /\ req' = [req EXCEPT !.proofs[k].responses[j] = FAdd(@, d % P)]
    /\ pc' = "corrupted"
    /\ UNCHANGED <<keys, cred, shares, agg, pres, out, wits, shown, check, vrf, schnorr, ver, par, sym>>

\* batch_verify(req.proofs, rng)
BatchVerify ==
    /\ pc \in {"proving", "corrupted"}
    /\ \E random_scalars \in SeqsOfLen(Draws, Len(req.proofs)) :
         out' = batch_verify(req.proofs, random_scalars)
    /\ pc' = "batch_verified"
    /\ UNCHANGED <<keys, cred, req, shares, agg, pres, wits, shown, check, vrf, schnorr, ver, par, sym>>

\* Commitment::verify / SymmetricCommitment::verify on the last proof.
VerifyCommitmentProof ==
    /\ pc \in {"proving", "corrupted"} /\ Len(req.proofs) >= 1
    /\ out' = Commitment_verify(req.proofs[Len(req.proofs)])
    /\ pc' = "proof_verified"
    /\ UNCHANGED <<keys, cred, req, shares, agg, pres, wits, shown, check, vrf, schnorr, ver, par, sym>>

VerifySymmetricProof ==
    /\ pc \in {"proving", "corrupted"} /\ Len(req.proofs) >= 1
    /\ out' = SymmetricCommitment_verify(req.proofs[Len(req.proofs)])
    /\ pc' = "proof_verified"
    /\ UNCHANGED <<keys, cred, req, shares, agg, pres, wits, shown, check, vrf, schnorr, ver, par, sym>>

ProofNext ==
    \/ ProveCommitment \/ ProveSymmetric \/ ForgeProof \/ CorruptProof
    \/ BatchVerify \/ VerifyCommitmentProof \/ VerifySymmetricProof

SpecProof == ProofInit /\ [][ProofNext]_vars

(***************************************************************************)
(* Properties of issuance (Spec).                                          *)
(***************************************************************************)
\* The party indices of the collected shares are pairwise distinct.
DistinctIndices ==
    \A a, b \in 1 .. Len(shares) :
        a # b => shares[a][2].party_index # shares[b][2].party_index

\* sum_k y_k * m_k for the dealer's y and the credential's attributes.
RECURSIVE attr_sum(_)
attr_sum(k) == IF k = 0 THEN 0 ELSE FAdd(attr_sum(k - 1), FMul(keys.y[k], cred.messages[k]))

\* (x + sum_k y_k m_k) * h: the PS signature on the attributes with r = 0.
ExpectedSigma == Mul(req.h, FAdd(keys.x, attr_sum(keys.l)))

\* e(sigma, g~) = e(h, VK + C~(attrs, 0))
ValidSignature(sig) ==
    Pairing(sig.sigma, keys.ck.g_tilde)
      = Pairing(sig.h, Add(keys.vk.g_tilde_x, g2_commit(keys.ck, cred.messages, 0)))

\* C1: for every keygen (t, n, l) and attribute vector, aggregating exactly t
\* shares of t distinct signers with the credential's blindings, t and the
\* request's h succeeds, the result (h, sigma) satisfies
\* e(sigma, g~) = e(h, VK + C~(attrs, 0)), and sigma = (x + sum_k y_k m_k) * h
\* whichever t signers were used.
C1_EndToEndIssuance ==
    (pc = "aggregated" /\ Len(shares) = keys.t /\ DistinctIndices)
      => /\ agg.tag = "Ok"
         /\ agg.val.h = req.h
         /\ ValidSignature(agg.val)
         /\ agg.val.sigma = ExpectedSigma

\* A run in which t >= 2 signers, not the first t ones, signed and the
\* aggregate is a non-identity signature.
C1_Witness ==
    /\ pc = "aggregated" /\ keys.t >= 2 /\ Len(shares) = keys.t /\ DistinctIndices
    /\ shares[1][2].party_index = keys.n
    /\ agg.tag = "Ok" /\ agg.val.sigma # 0
    /\ \E k \in 1 .. keys.l : cred.blindings[k] # 0 /\ keys.y[k] # 0

\* C5 (as claimed): given more than t shares with pairwise distinct indices,
\* aggregation returns the same valid signature as for a t-subset.
C5_ExtraSharesTolerated ==
    (pc = "aggregated" /\ Len(shares) > keys.t /\ DistinctIndices)
      => /\ agg.tag = "Ok"
         /\ agg.val.sigma = ExpectedSigma
         /\ ValidSignature(agg.val)

\* C6 (as claimed): every input in which two shares carry the same party
\* index is rejected with an error; no signature is produced from it.
C6_DuplicateIndexRejected ==
    (pc = "aggregated" /\ ~DistinctIndices) => agg.tag = "Err"

\* C7: with fewer shares than the threshold t, aggregation returns
\* InsufficientShares {needed: t, got: number supplied} and no signature.
C7_InsufficientShares ==
    (pc = "aggregated" /\ Len(shares) < keys.t)
      => /\ agg.tag = "Err" /\ agg.err = "InsufficientShares"
         /\ agg.needed = keys.t /\ agg.got = Len(shares)

\* Aggregation was refused with exactly t - 1 >= 1 shares in hand.
C7_Witness ==
    /\ pc = "aggregated" /\ keys.t >= 2 /\ Len(shares) = keys.t - 1
    /\ agg.tag = "Err" /\ agg.err = "InsufficientShares"

(***************************************************************************)
(* Properties of presentation (SpecShow).                                  *)
(***************************************************************************)
\* The presentation on the wire is one Credential::show can return for cred.
IsShowOutput ==
    \E u_delta \in Draws, r_delta \in Draws,
       random_blindings \in SeqsOfLen(Draws, Len(cred.ck.ck) + 1), challenge \in Draws :
      show(cred, u_delta, r_delta, random_blindings, challenge).pres = pres

\* Equation 1: e(sigma_rand, g~) = e(h_rand, VK + C~_rand)
Equation1 ==
    Pairing(pres.sig.sigma, keys.ck.g_tilde)
      = Pairing(pres.sig.h, Add(keys.vk.g_tilde_x, pres.cm_tilde))
\* Equation 2: e(C_rand, g~) = e(g, C~_rand)
Equation2 ==
    Pairing(pres.cm, keys.ck.g_tilde) = Pairing(keys.ck.g, pres.cm_tilde)

\* pi_sym is a valid Schnorr opening proof of C_rand over (ck_1..ck_l, g).
ValidOpeningOfCRand ==
    /\ pres.proof.wellformed
    /\ pres.proof.commitment = pres.cm
    /\ pres.proof.bases = get_bases(keys.ck)
    /\ Len(pres.proof.responses) = Len(pres.proof.bases)
    /\ verify_schnorr(pres.proof.bases, pres.proof.commitment,
                      pres.proof.schnorr_commitment, pres.proof.responses,
                      pres.proof.challenge)

Accepted == out.tag = "Ok" /\ out.val = TRUE

\* C2: for a Signed credential with a valid threshold signature and every
\* (u, r') show can draw, VerifierProtocol::verify of show's output is Ok(true).
C2_ShowVerifyRoundTrip ==
    (pc = "verified" /\ IsShowOutput) => Accepted

\* A verified, untampered presentation with a non-identity h_rand whose
\* commitment was really re-randomized.
C2_Witness ==
    /\ pc = "verified" /\ IsShowOutput /\ Accepted
    /\ pres.sig.h # 0 /\ pres.sig.sigma # 0 /\ pres.cm # cred.cm.cm

\* C3 (as claimed), in the case the claim singles out: a presentation for
\* which both pairing equations hold but whose pi_sym is no valid Schnorr
\* opening proof of C_rand over (ck_1..ck_l, g) is never accepted.
C3_InvalidProofRejected ==
    (pc = "verified" /\ Equation1 /\ Equation2 /\ ~ValidOpeningOfCRand) => ~Accepted

\* C4 (as claimed): a presentation for which equation 1 or equation 2 fails is
\* never accepted, whatever coefficients the merged check draws.
C4_FailedEquationRejected ==
    (pc = "verified" /\ (~Equation1 \/ ~Equation2)) => ~Accepted

(***************************************************************************)
(* Properties of the request check (SpecSign).                             *)
(***************************************************************************)
\* pi is a well-formed proof whose statement is the point cm, over the bases
\* [h, g], and it satisfies the Schnorr verification equation.
ProvesOpeningOf(pi, cm, h, g) ==
    /\ pi.wellformed
    /\ pi.commitment = cm
    /\ pi.bases = <<h, g>>
    /\ Len(pi.responses) = 2
    /\ verify_schnorr(pi.bases, pi.commitment, pi.schnorr_commitment, pi.responses,
                      pi.challenge)

\* Every commitment of the request has its own proof.
EachCommitmentProved ==
    /\ Len(req.proofs) = Len(req.commitments)
    /\ \A k \in 1 .. Len(req.commitments) :
         ProvesOpeningOf(req.proofs[k], req.commitments[k], req.h, keys.ck.g)

\* C8 (as claimed): sign_share and User::verify_signature_share get past
\* their proof check only if there is one proof per commitment and each pi_k
\* is a valid opening proof whose statement is the very cm_k that is signed,
\* over the bases [h, g].
C8_ProofsBoundToCommitments ==
    (pc \in {"share_signed", "share_verified"} /\ out.tag = "Ok") => EachCommitmentProved

(***************************************************************************)
(* Properties of the opening proofs (SpecProof).                           *)
(***************************************************************************)
\* The proof satisfies the Schnorr verification equation on its own.
IndividuallyValid(pi) == Commitment_verify(pi) = Ok(TRUE)

\* C9 (as claimed): batch_verify returns Ok(true) exactly when every proof
\* of the batch individually satisfies the Schnorr verification equation,
\* whatever weights it draws; the empty batch gives Ok(true).
C9_BatchIffAllValid ==
    pc = "batch_verified"
      => (out = Ok(TRUE) <=> \A k \in 1 .. Len(req.proofs) : IndividuallyValid(req.proofs[k]))

\* The author of the k-th proof holds an opening of its statement over the
\* bases the proof names.
HoldsOpening(k) ==
    /\ Len(wits[k]) = Len(req.proofs[k].bases)
    /\ msm_unchecked(req.proofs[k].bases, wits[k]) = req.proofs[k].commitment

\* C10 (as claimed): a proof accepted by Commitment::verify,
\* SymmetricCommitment::verify or batch_verify was assembled by a party that
\* holds an opening of its statement C; a party holding none cannot produce
\* an accepted proof.
C10_AcceptedProofBindsWitness ==
    /\ (pc = "proof_verified" /\ out = Ok(TRUE)) => HoldsOpening(Len(req.proofs))
    /\ (pc = "batch_verified" /\ out = Ok(TRUE))
         => \A k \in 1 .. Len(req.proofs) : HoldsOpening(k)

(***************************************************************************)
(* shamir.rs: reconstruct_secret, and SpecShamir, which deals a secret     *)
(* with generate_shares, hands any shares of the dealing to the caller in  *)
(* any order and reconstructs from them.                                   *)
(***************************************************************************)
\* A value returned by a function that has no Result type.
Returned(v) == [tag |-> "Ok", val |-> v, err |-> "", needed |-> 0, got |-> 0]

\* Mutant: the numerator x_j instead of (0 - x_j).
RECURSIVE lagrange_coef_unsigned(_, _, _)
lagrange_coef_unsigned(shares_t, i, j) ==
    IF j = 0 THEN 1
    ELSE IF i = j THEN lagrange_coef_unsigned(shares_t, i, j - 1)
    ELSE LET numerator == FromU64(shares_t[j][1])
             denominator == FSub(FromU64(shares_t[i][1]), FromU64(shares_t[j][1]))
         IN FMul(FMul(lagrange_coef_unsigned(shares_t, i, j - 1), numerator),
                 Inverse(denominator).v)

\* The inner loop of reconstruct_secret: the Lagrange basis polynomial of
\* position i evaluated at 0, over the positions 1..j other than i.
RECURSIVE lagrange_coef(_, _, _)
lagrange_coef(shares_t, i, j) ==
    IF j = 0 THEN 1
    ELSE IF i = j THEN lagrange_coef(shares_t, i, j - 1)
    ELSE LET numerator == FSub(0, FromU64(shares_t[j][1]))
             denominator == FSub(FromU64(shares_t[i][1]), FromU64(shares_t[j][1]))
         IN FMul(FMul(lagrange_coef(shares_t, i, j - 1), numerator),
                 Inverse(denominator).v)

\* The outer loop of reconstruct_secret over the positions 1..i.
RECURSIVE reconstruct_sum(_, _)
reconstruct_sum(shares_t, i) ==
    IF i = 0 THEN 0
    ELSE FAdd(reconstruct_sum(shares_t, i - 1),
              FMul(shares_t[i][2], lagrange_coef(shares_t, i, Len(shares_t))))

\* denominator.inverse().unwrap() panics when two of the positions used
\* carry the same field value.
ZeroDenominator(shares_t) ==
    \E i, j \in 1 .. Len(shares_t) :
        i # j /\ FromU64(shares_t[i][1]) = FromU64(shares_t[j][1])

\* reconstruct_secret(shares, threshold)
reconstruct_secret(shares_in, threshold) ==
    IF Len(shares_in) < threshold THEN Panic
    ELSE LET shares_t == SubSeq(shares_in, 1, threshold)
         IN IF ZeroDenominator(shares_t) THEN Panic
            ELSE Returned(reconstruct_sum(shares_t, Len(shares_t)))

ShamirInit ==
    /\ sym = NoCommitments
    /\ par = NoCalls
    /\ ver = NoVer
    /\ \E secret \in Fr, t \in 1 .. MaxN :
         \E n \in t .. MaxN, rand \in SeqsOfLen(Fr, t - 1) :
            keys = [secret |-> secret, t |-> t, n |-> n,
                    dealt |-> generate_shares(secret, t, n, rand)]
    /\ cred = NoCredential
    /\ req = NoRequest
    /\ shares = <<>>
    /\ agg = NoResult
    /\ pres = NoPresentation
    /\ out = NoResult
    /\ wits = <<>>
    /\ shown = <<>>
    /\ check = NoCheck
    /\ vrf = NoVrf
    /\ schnorr = NoSchnorr
    /\ pc = "dealt"

\* The caller takes one more share of the dealing.
TakeShare ==
    /\ pc = "dealt" /\ Len(shares) < MaxShares
    /\ \E i \in 1 .. keys.n : shares' = Append(shares, keys.dealt[i])
    /\ UNCHANGED <<keys, cred, req, agg, pres, out, wits, pc, shown, check, vrf, schnorr, ver, par, sym>>

\* reconstruct_secret(shares, t)
Reconstruct ==
    /\ pc = "dealt"
    /\ out' = reconstruct_secret(shares, keys.t)
    /\ pc' = "reconstructed"
    /\ UNCHANGED <<keys, cred, req, shares, agg, pres, wits, shown, check, vrf, schnorr, ver, par, sym>>

ShamirNext == TakeShare \/ Reconstruct

SpecShamir == ShamirInit /\ [][ShamirNext]_vars

\* The shares taken carry pairwise distinct indices.
DistinctShareIndices ==
    \A i, j \in 1 .. Len(shares) : i # j => shares[i][1] # shares[j][1]

\* C11: reconstruct_secret applied to any t shares with distinct indices of
\* generate_shares(s, t, n), in any order and for every choice of the
\* polynomial's coefficients, returns s.
C11_ShamirReconstruction ==
    (pc = "reconstructed" /\ Len(shares) = keys.t /\ DistinctShareIndices)
      => out = Returned(keys.secret)

\* Three shares of a polynomial of degree two, not in index order, give back
\* a secret that none of the shares equals.
C11_Witness ==
    /\ pc = "reconstructed" /\ keys.t = 3 /\ Len(shares) = 3 /\ DistinctShareIndices
    /\ shares[1][1] > shares[2][1]
    /\ keys.secret # 0
    /\ \A i \in 1 .. 3 : shares[i][2] # keys.secret
    /\ out = Returned(keys.secret)

(***************************************************************************)
(* SpecKeygen: keygen(t, n, l), then any of the secret-key shares are      *)
(* collected and x and each y_k are reconstructed from them with           *)
(* reconstruct_secret, the threshold being the number of shares collected. *)
(***************************************************************************)
KeygenInit ==
    /\ sym = NoCommitments
    /\ par = NoCalls
    /\ ver = NoVer
    /\ \E t \in 1 .. MaxN, l \in 1 .. MaxL, x \in Draws,
          g \in NonZeroDraws, g_tilde \in NonZeroDraws :
         \E n \in t .. MaxN, y_values \in SeqsOfLen(Draws, l),
            x_rand \in SeqsOfLen(Draws, t - 1),
            y_rand \in SeqsOfLen(SeqsOfLen(Draws, t - 1), l) :
           keys = keygen(t, n, l, x, x_rand, y_values, y_rand, g, g_tilde)
    /\ cred = NoCredential
    /\ req = NoRequest
    /\ shares = <<>>
    /\ agg = NoResult
    /\ pres = NoPresentation
    /\ out = NoResult
    /\ wits = <<>>
    /\ shown = <<>>
    /\ check = NoCheck
    /\ vrf = NoVrf
    /\ schnorr = NoSchnorr
    /\ pc = "keys_dealt"

\* One more secret-key share is collected.
TakeKeyShare ==
    /\ pc = "keys_dealt" /\ Len(shares) < MaxShares
    /\ \E i \in 1 .. Len(keys.sk_shares) : shares' = Append(shares, keys.sk_shares[i])
    /\ UNCHANGED <<keys, cred, req, agg, pres, out, wits, pc, shown, check, vrf, schnorr, ver, par, sym>>

\* reconstruct_secret on the (index, x_share) pairs and, for each k, on the
\* (index, y_shares[k]) pairs of the shares collected.
ReconstructKeys ==
    /\ pc = "keys_dealt" /\ Len(shares) >= 1
    /\ LET x_shares_subset == [i \in 1 .. Len(shares) |->
                                 <<shares[i].index, shares[i].x_share>>]
           y_k_shares_subset(k) == [i \in 1 .. Len(shares) |->
                                      <<shares[i].index, shares[i].y_shares[k]>>]
       IN out' = [x |-> reconstruct_secret(x_shares_subset, Len(shares)),
                  y |-> [k \in 1 .. keys.l |->
                           reconstruct_secret(y_k_shares_subset(k), Len(shares))]]
    /\ pc' = "keys_reconstructed"
    /\ UNCHANGED <<keys, cred, req, shares, agg, pres, wits, shown, check, vrf, schnorr, ver, par, sym>>

KeygenNext == TakeKeyShare \/ ReconstructKeys

SpecKeygen == KeygenInit /\ [][KeygenNext]_vars

\* The key shares collected carry pairwise distinct indices.
DistinctKeyShares ==
    \A i, j \in 1 .. Len(shares) : i # j => shares[i].index # shares[j].index

MaxShows == 2

CredInit ==
    /\ sym = NoCommitments
    /\ par = NoCalls
    /\ ver = NoVer
    /\ SetupStates({1})
    /\ \E messages \in SeqsOfLen(Draws, MaxL), h \in PointDraws :
         cred = Credential_new(keys.ck, messages, h)
    /\ req = NoRequest
    /\ shares = <<>>
    /\ agg = NoResult
    /\ pres = NoPresentation
    /\ out = NoResult
    /\ wits = <<>>
    /\ shown = <<>>
    /\ check = NoCheck
    /\ vrf = NoVrf
    /\ schnorr = NoSchnorr
    /\ pc = "new"

\* credential.compute_commitments_per_m(rng).  The commitments and proofs go
\* to the caller; what the Credential keeps of the call (blindings, state)
\* does not depend on the draws made for the proofs, so one draw stands for all.
CredComputeCommitments ==
    /\ \E blindings \in SeqsOfLen(Draws, Len(cred.messages)) :
         LET proof_blindings == [k \in 1 .. Len(cred.messages) |-> <<0, 0>>]
             challenges == [k \in 1 .. Len(cred.messages) |-> 0]
             r == compute_commitments_per_m(cred, blindings, proof_blindings, challenges)
         IN /\ cred' = r.cred
            /\ out' = r.out
    /\ pc' = "compute_commitments_per_m"
    /\ UNCHANGED <<keys, req, shares, agg, pres, wits, shown, check, vrf, schnorr, ver, par, sym>>

\* credential.attach_signature(sig), for a signature on the credential's h
CredAttachSignature ==
    /\ \E sigma \in Draws :
         cred' = attach_signature(cred, [h |-> cred.h, sigma |-> sigma])
    /\ out' = NoResult
    /\ pc' = "attach_signature"
    /\ UNCHANGED <<keys, req, shares, agg, pres, wits, shown, check, vrf, schnorr, ver, par, sym>>

\* credential.show(rng); show takes &self, so the credential is left as it is
CredShow ==
    /\ Len(shown) < MaxShows
    /\ \E u_delta \in Draws, r_delta \in Draws,
          random_blindings \in SeqsOfLen(Draws, Len(cred.ck.ck) + 1), challenge \in Draws :
         LET r == show(cred, u_delta, r_delta, random_blindings, challenge)
         IN /\ out' = r.out
            /\ pres' = r.pres
            /\ shown' = IF r.out.tag = "Ok"
                        THEN Append(shown, ShownWith(cred, r.pres, u_delta, r_delta))
                        ELSE shown
    /\ pc' = "show"
    /\ UNCHANGED <<keys, cred, req, shares, agg, wits, check, vrf, schnorr, ver, par, sym>>

CredNext == CredComputeCommitments \/ CredAttachSignature \/ CredShow

SpecCred == CredInit /\ [][CredNext]_vars

\* The order of the states of a Credential.
StateSuccessor(a, b) ==
    \/ a = "Initialized" /\ b = "Committed"
    \/ a = "Committed" /\ b = "Signed"
    \/ a = "Signed" /\ b = "Randomized"

\* C13 (as claimed): the state of a Credential only advances along
\* Initialized -> Committed -> Signed -> Randomized: computing the
\* commitments moves Initialized to Committed, attach_signature moves
\* Committed to Signed, show moves Signed to Randomized, and no operation
\* skips a state or moves it backwards.
C13_StateMachine ==
    [][/\ cred'.state # cred.state => StateSuccessor(cred.state, cred'.state)
       /\ (pc' = "compute_commitments_per_m" /\ cred.state = "Initialized")
            => cred'.state = "Committed"
       /\ (pc' = "attach_signature" /\ cred.state = "Committed") => cred'.state = "Signed"
       /\ (pc' = "show" /\ cred.state = "Signed") => cred'.state = "Randomized"]_vars

\* C14: show called on a credential whose state is not Signed returns
\* CredentialError::InvalidState, emits no presentation and leaves the
\* credential (state, signature, commitment, blindings) unchanged.
C14_ShowRequiresSigned ==
    [][(pc' = "show" /\ cred.state # "Signed")
         => /\ out'.tag = "Err" /\ out'.err = "InvalidState"
            /\ pres' = NoPresentation
            /\ shown' = shown
            /\ cred' = cred]_vars

\* show has just been refused on a Committed credential that holds blindings.
C14_Witness ==
    /\ pc = "show" /\ cred.state = "Committed" /\ cred.blindings # <<>>
    /\ out.tag = "Err" /\ out.err = "InvalidState"
    /\ pres = NoPresentation /\ shown = <<>>

\* C15 (as claimed): once the signature is attached, the credential no
\* longer holds the per-attribute blindings: in every Signed state the
\* blinding vector is empty.
C15_BlindingsDiscarded ==
    (cred.state = "Signed" /\ cred.sig.some) => cred.blindings = <<>>

\* Two presentations of the same credential (same signature, same commitment).
SameCredential(i, j) ==
    shown[i].of_sig = shown[j].of_sig /\ shown[i].of_cm = shown[j].of_cm

\* After a successful show the credential is as usable as before.
StillUsable == (pc = "show" /\ out.tag = "Ok") => (cred.state = "Signed" /\ cred.sig.some)

MaxTotal == 256

\* PairingCheck::new_invalid
\* one + one is the field's sum: the element 2, which generates the whole
\* multiplicative group (discrete logarithm 1) and is no pairing output.
PairingCheck_new_invalid == [left |-> GtOne, right |-> 1, non_randomized |-> 2]

\* PairingCheck::from_pair(result, exp)
from_pair(result, exp) == [left |-> result, right |-> exp, non_randomized |-> 1]

\* The fold of from_products over the first k entries of lefts.
RECURSIVE product(_, _)
product(lefts, k) == IF k = 0 THEN GtOne ELSE GtMul(product(lefts, k - 1), lefts[k])

\* PairingCheck::from_products(lefts, right)
from_products(lefts, right) == from_pair(product(lefts, Len(lefts)), right)

PairingInit ==
    /\ sym = NoCommitments
    /\ par = NoCalls
    /\ ver = NoVer
    /\ keys = NoKeys
    /\ cred = NoCredential
    /\ req = NoRequest
    /\ shares = <<>>
    /\ agg = NoResult
    /\ pres = NoPresentation
    /\ out = NoResult
    /\ wits = <<>>
    /\ shown = <<>>
    /\ check = [acc |-> PairingCheck_new, total |-> 0]
    /\ vrf = NoVrf
    /\ schnorr = NoSchnorr
    /\ pc = "accumulating"

\* check.acc.merge(&p2), where p2 carries `contributed` non-randomized
\* contributions.  `non_randomized += ...` on a u8 wraps around in a build
\* without overflow checks and panics in a build with them.
MergeInto(p2, contributed) ==
    /\ check.total + contributed <= MaxTotal
    /\ \/ /\ check' = [acc |-> PairingCheck_merge(check.acc, p2),
                       total |-> check.total + contributed]
          /\ UNCHANGED <<out, pc, ver, par, sym>>
       \/ /\ check.acc.non_randomized + p2.non_randomized >= U8Modulus
          /\ out' = Panic
          /\ pc' = "panicked"
          /\ UNCHANGED check
    /\ UNCHANGED <<keys, cred, req, shares, agg, pres, wits, shown, vrf, schnorr, ver, par, sym>>

\* merge(&PairingCheck::from_products(lefts, right))
MergeFromProducts ==
    /\ pc = "accumulating"
    /\ \E lefts \in SeqsOfLen(Fr, 1), right \in Fr :
         MergeInto(from_products(lefts, right), 1)

\* merge(&PairingCheck::new_invalid())
MergeNewInvalid ==
    /\ pc = "accumulating"
    /\ MergeInto(PairingCheck_new_invalid, 2)

\* merge(&PairingCheck::rand(rng, [(a, b)], out))
MergeRand ==
    /\ pc = "accumulating"
    /\ \E a \in Draws, b \in Draws, coeff \in RandFr :
       \E out_gt \in {GtOne, Pairing(a, b), GtMul(Pairing(a, b), 1)} :
         MergeInto(PairingCheck_rand(coeff, <<<<a, b>>>>, out_gt), 0)

\* let copy = acc; acc.merge(&copy)
MergeCopy ==
    /\ pc = "accumulating"
    /\ MergeInto(check.acc, check.total)

\* check.acc.verify()
VerifyCheck ==
    /\ pc = "accumulating"
    /\ out' = Returned(PairingCheck_verify(check.acc))
    /\ pc' = "checked"
    /\ UNCHANGED <<keys, cred, req, shares, agg, pres, wits, shown, check, vrf, schnorr, ver, par, sym>>

PairingNext == MergeFromProducts \/ MergeNewInvalid \/ MergeRand \/ MergeCopy \/ VerifyCheck

SpecPairing == PairingInit /\ [][PairingNext]_vars

\* C17 (as claimed): verify returns false whenever more than one
\* non-randomized contribution has been merged into the check: from_pair /
\* from_products contribute 1 each, rand and new contribute 0, merge adds
\* the counts.
C17_NonRandomizedRule ==
    (pc = "checked" /\ check.total > 1) => out = Returned(FALSE)

(* ---------------- nullifier.rs ---------------- *)
\* DYPFPrivVRF::evaluate without the inverse check: Field::inverse of zero
\* is taken as zero.
evaluate_unchecked(self, witness) ==
    Ok([y |-> Mul(self.pp.g, Inverse(FAdd(witness.sk, witness.x)).v)])

\* DYPFPrivVRF::evaluate: exponent = (sk + x).inverse().ok_or(..)?; y = g^exponent
evaluate(self, witness) ==
    LET exponent == Inverse(FAdd(witness.sk, witness.x))
    IN IF ~exponent.some THEN Err("sk + x is zero")
       ELSE Ok([y |-> Mul(self.pp.g, exponent.v)])

\* DYPFPrivVRF::prove_with_challenge; a holds the four commitment-phase draws.
prove_with_challenge(self, witness, output, challenge, a) ==
    LET a_sk_plus_a_x == FAdd(a.a_sk, a.a_x)
        c == challenge
    IN [t1 |-> Add(Mul(self.pp.g1, a.a_sk), Mul(self.pp.g, a.a_r_sk)),
        t2 |-> Add(Mul(self.pp.g2, a.a_x), Mul(self.pp.g, a.a_r_x)),
        ty |-> Mul(output.y, a_sk_plus_a_x),
        z_sk |-> FAdd(a.a_sk, FMul(c, witness.sk)),
        z_x |-> FAdd(a.a_x, FMul(c, witness.x)),
        z_r_sk |-> FAdd(a.a_r_sk, FMul(c, witness.r_sk)),
        z_r_x |-> FAdd(a.a_r_x, FMul(c, witness.r_x)),
        z_m |-> FAdd(a_sk_plus_a_x, FMul(c, FAdd(witness.sk, witness.x)))]

\* DYPFPrivVRF::prove: the same computation with c = rand(rng); the proof
\* that is returned has no field for c.
prove(self, witness, output, a, c) ==
    prove_with_challenge(self, witness, output, c, a)

\* DYPFPrivVRF::verify
DYPFPrivVRF_verify(self, pk_with_commitments, output, proof, challenge) ==
    LET lhs1 == Add(proof.t1, Mul(pk_with_commitments.cm_sk, challenge))
        rhs1 == Add(Mul(self.pp.g1, proof.z_sk), Mul(self.pp.g, proof.z_r_sk))
        check1 == lhs1 = rhs1
        lhs2 == Add(proof.t2, Mul(pk_with_commitments.cm_x, challenge))
        rhs2 == Add(Mul(self.pp.g2, proof.z_x), Mul(self.pp.g, proof.z_r_x))
        check2 == lhs2 = rhs2
        lhs3 == Add(proof.ty, Mul(self.pp.g, challenge))
        rhs3 == Mul(output.y, proof.z_m)
        check3 == lhs3 = rhs3
        check4 == proof.z_m = FAdd(proof.z_sk, proof.z_x)
    IN check1 /\ check2 /\ check3 /\ check4

NoVrfProof ==
    [t1 |-> 0, t2 |-> 0, ty |-> 0, z_sk |-> 0, z_x |-> 0, z_r_sk |-> 0, z_r_x |-> 0, z_m |-> 0]

(* ---------------- the VRF run ---------------- *)
\* DYPFPrivVRF::new(rng): three random group elements.
VrfInit ==
    /\ sym = NoCommitments
    /\ par = NoCalls
    /\ ver = NoVer
    /\ keys = NoKeys
    /\ cred = NoCredential
    /\ req = NoRequest
    /\ shares = <<>>
    /\ agg = NoResult
    /\ pres = NoPresentation
    /\ out = NoResult
    /\ wits = <<>>
    /\ shown = <<>>
    /\ check = NoCheck
    /\ schnorr = NoSchnorr
    /\ \E g \in PointDraws, g1 \in Draws, g2 \in Draws :
         vrf = [some |-> TRUE,
                pp |-> [g |-> g, g1 |-> g1, g2 |-> g2],
                witness |-> [sk |-> 0, r_sk |-> 0, x |-> 0, r_x |-> 0],
                pk |-> [cm_sk |-> 0, cm_x |-> 0],
                proof |-> NoVrfProof,
                via |-> "",
                challenge |-> 0,
                verified_with |-> 0]
    /\ pc = "new"

\* generate_keys(rng): sk, r_sk drawn; cm_sk = g1^sk * g^r_sk, cm_x = identity.
GenerateKeys ==
    /\ pc = "new"
    /\ \E sk \in Draws, r_sk \in Draws :
         vrf' = [vrf EXCEPT !.witness.sk = sk,
                            !.witness.r_sk = r_sk,
                            !.pk = [cm_sk |-> Add(Mul(vrf.pp.g1, sk), Mul(vrf.pp.g, r_sk)),
                                    cm_x |-> 0]]
    /\ pc' = "generate_keys"
    /\ UNCHANGED <<keys, cred, req, shares, agg, pres, out, wits, shown, check, schnorr, ver, par, sym>>

\* commit_to_input(x, rng) and the caller's pk.cm_x = cm_x
CommitToInput ==
    /\ pc = "generate_keys"
    /\ \E x \in Fr, r_x \in Draws :
         vrf' = [vrf EXCEPT !.witness.x = x,
                            !.witness.r_x = r_x,
                            !.pk.cm_x = Add(Mul(vrf.pp.g2, x), Mul(vrf.pp.g, r_x))]
    /\ pc' = "commit_to_input"
    /\ UNCHANGED <<keys, cred, req, shares, agg, pres, out, wits, shown, check, schnorr, ver, par, sym>>

\* evaluate(&witness)
Evaluate ==
    /\ pc = "commit_to_input"
    /\ out' = evaluate(vrf, vrf.witness)
    /\ pc' = "evaluate"
    /\ UNCHANGED <<keys, cred, req, shares, agg, pres, wits, shown, check, vrf, schnorr, ver, par, sym>>

VrfDraws == [a_sk : Draws, a_x : Draws, a_r_sk : Draws, a_r_x : Draws]

\* prove(&witness, &output, rng) on the output evaluate returned
Prove ==
    /\ pc = "evaluate"
    /\ out.tag = "Ok"
    /\ \E a \in VrfDraws, c \in Fr :
         vrf' = [vrf EXCEPT !.proof = prove(vrf, vrf.witness, out.val, a, c),
                            !.via = "prove"]
    /\ pc' = "proved"
    /\ UNCHANGED <<keys, cred, req, shares, agg, pres, out, wits, shown, check, schnorr, ver, par, sym>>

\* prove_with_challenge(&witness, &output, &challenge, rng)
ProveWithChallenge ==
    /\ pc = "evaluate"
    /\ out.tag = "Ok"
    /\ \E a \in VrfDraws, challenge \in Fr :
         vrf' = [vrf EXCEPT !.proof = prove_with_challenge(vrf, vrf.witness, out.val,
                                                            challenge, a),
                            !.via = "prove_with_challenge",
                            !.challenge = challenge]
    /\ pc' = "proved"
    /\ UNCHANGED <<keys, cred, req, shares, agg, pres, out, wits, shown, check, schnorr, ver, par, sym>>

\* verify(&pk, &output, &proof, &challenge): the verifier passes a challenge
\* of its own; after prove_with_challenge it can pass the one the prover used.
VrfVerify ==
    /\ pc = "proved"
    /\ \E challenge \in Fr :
         /\ out' = Returned(DYPFPrivVRF_verify(vrf, vrf.pk, out.val, vrf.proof, challenge))
         /\ vrf' = [vrf EXCEPT !.verified_with = challenge]
    /\ pc' = "verified"
    /\ UNCHANGED <<keys, cred, req, shares, agg, pres, wits, shown, check, schnorr, ver, par, sym>>

VrfNext == GenerateKeys \/ CommitToInput \/ Evaluate \/ Prove \/ ProveWithChallenge \/ VrfVerify

SpecVrf == VrfInit /\ [][VrfNext]_vars

\* C18 (as claimed): for a witness with sk + x /= 0, the proof made by prove,
\* or by prove_with_challenge and checked under the challenge it was made
\* with, is accepted by verify against (cm_sk, cm_x, y).
C18_VrfCompleteness ==
    (/\ pc = "verified"
     /\ (vrf.via = "prove_with_challenge" => vrf.verified_with = vrf.challenge))
        => out = Returned(TRUE)

\* The part of C18 that the code meets: a proof made by prove_with_challenge
\* is accepted under the same challenge.
VrfCompletenessWithChallenge ==
    (/\ pc = "verified"
     /\ vrf.via = "prove_with_challenge"
     /\ vrf.verified_with = vrf.challenge)
        => out = Returned(TRUE)

\* C19: evaluate returns the error and no output exactly when sk + x = 0;
\* otherwise it returns the one y with y^(sk+x) = g, i.e. y = g^(1/(sk+x)),
\* which depends on (sk, x) and g only.
C19_EvaluateErrorsIffZero ==
    pc = "evaluate" =>
        IF FAdd(vrf.witness.sk, vrf.witness.x) = 0
        THEN out = Err("sk + x is zero")
        ELSE /\ out.tag = "Ok"
             /\ Mul(out.val.y, FAdd(vrf.witness.sk, vrf.witness.x)) = vrf.pp.g

C19_Witness ==
    /\ pc = "evaluate"
    /\ FAdd(vrf.witness.sk, vrf.witness.x) = 0
    /\ vrf.witness.sk /= 0
    /\ out.tag = "Err"

(* ---------------- the Schnorr run ---------------- *)
\* The bases are any group elements, the identity included; the statement
\* is P = sum_j w_j * B_j as in the tests of schnorr.rs.
SchnorrInit ==
    /\ sym = NoCommitments
    /\ par = NoCalls
    /\ ver = NoVer
    /\ keys = NoKeys
    /\ cred = NoCredential
    /\ req = NoRequest
    /\ shares = <<>>
    /\ agg = NoResult
    /\ pres = NoPresentation
    /\ out = NoResult
    /\ wits = <<>>
    /\ shown = <<>>
    /\ check = NoCheck
    /\ vrf = NoVrf
    /\ \E n \in 1 .. MaxBases :
       \E bases \in SeqsOfLen({FromU64(b) : b \in 0 .. MaxPoint}, n), witnesses \in SeqsOfLen(Draws, n) :
         schnorr = [some |-> TRUE,
                    bases |-> bases,
                    witnesses |-> witnesses,
                    statement |-> msm_unchecked(bases, witnesses),
                    commitment |-> [random_blindings |-> <<>>, commited_blindings |-> 0],
                    challenge |-> 0,
                    responses |-> <<>>,
                    replaced |-> 0,
                    via |-> ""]
    /\ pc = "stated"

\* SchnorrProtocol::commit(&bases, rng)
SchnorrCommit ==
    /\ pc = "stated"
    /\ \E random_blindings \in SeqsOfLen(Draws, Len(schnorr.bases)) :
         schnorr' = [schnorr EXCEPT
                        !.commitment = SchnorrProtocol_commit(schnorr.bases, random_blindings)]
    /\ pc' = "committed"
    /\ UNCHANGED <<keys, cred, req, shares, agg, pres, out, wits, shown, check, vrf, ver, par, sym>>

\* SchnorrProtocol::prove(&commitment, &witnesses, &challenge)
SchnorrProve ==
    /\ pc = "committed"
    /\ \E challenge \in Fr :
         schnorr' = [schnorr EXCEPT
                        !.challenge = challenge,
                        !.responses = SchnorrProtocol_prove(schnorr.commitment,
                                                            schnorr.witnesses, challenge)]
    /\ pc' = "proved"
    /\ UNCHANGED <<keys, cred, req, shares, agg, pres, out, wits, shown, check, vrf, ver, par, sym>>

\* responses.0[j] = z for one index j and one scalar z other than z_j
ReplaceResponse ==
    /\ pc = "proved"
    /\ schnorr.replaced = 0
    /\ \E j \in 1 .. Len(schnorr.responses), z \in Fr :
         /\ z /= schnorr.responses[j]
         /\ schnorr' = [schnorr EXCEPT !.responses[j] = z, !.replaced = j]
    /\ UNCHANGED <<keys, cred, req, shares, agg, pres, out, wits, shown, check, vrf, pc, ver, par, sym>>

\* SchnorrProtocol::verify(&bases, &statement, &commitment, &responses, &challenge)
SchnorrVerify ==
    /\ pc = "proved"
    /\ out' = Returned(SchnorrProtocol_verify(schnorr.bases, schnorr.statement,
                                              schnorr.commitment, schnorr.responses,
                                              schnorr.challenge))
    /\ schnorr' = [schnorr EXCEPT !.via = "verify"]
    /\ pc' = "verified"
    /\ UNCHANGED <<keys, cred, req, shares, agg, pres, wits, shown, check, vrf, ver, par, sym>>

\* SchnorrProtocol::verify_schnorr(&bases, &statement, &T, &responses.0, &challenge)
SchnorrVerifySchnorr ==
    /\ pc = "proved"
    /\ out' = Returned(verify_schnorr(schnorr.bases, schnorr.statement,
                                      schnorr.commitment.commited_blindings,
                                      schnorr.responses, schnorr.challenge))
    /\ schnorr' = [schnorr EXCEPT !.via = "verify_schnorr"]
    /\ pc' = "verified"
    /\ UNCHANGED <<keys, cred, req, shares, agg, pres, wits, shown, check, vrf, ver, par, sym>>

SchnorrNext ==
    SchnorrCommit \/ SchnorrProve \/ ReplaceResponse \/ SchnorrVerify \/ SchnorrVerifySchnorr

SpecSchnorr == SchnorrInit /\ [][SchnorrNext]_vars

\* C20 (as claimed): the responses of prove on a commitment of commit are
\* accepted by verify and verify_schnorr against P = sum_j w_j * B_j, and
\* replacing any single response by a different scalar makes them return
\* false.
C20_SchnorrCompleteAndSensitive ==
    pc = "verified" =>
        out = Returned(schnorr.replaced = 0)

\* C20 (amended): untouched responses are accepted; after one response z_j
\* is replaced by a different scalar, verification returns false exactly
\* when the base B_j is not the identity.
C20_SchnorrSensitiveOnNonIdentityBases ==
    pc = "verified" =>
        IF schnorr.replaced = 0
        THEN out = Returned(TRUE)
        ELSE out = Returned(schnorr.bases[schnorr.replaced] = 0)

C20_Witness ==
    /\ pc = "verified"
    /\ schnorr.replaced /= 0
    /\ schnorr.bases[schnorr.replaced] /= 0
    /\ out = Returned(FALSE)

(***************************************************************************)
(* SpecShareVer: one partial signature and its verification.  A request   *)
(* (h, {cm_k}, {pi_k}) made by compute_commitments_per_m for a base h of   *)
(* the user's choosing (CredentialCommitments has public fields; h may be  *)
(* any element of G1) is signed by one signer, or a share is made up by a  *)
(* party holding no key; the share is then verified against one of the     *)
(* verification-key shares.                                                *)
(***************************************************************************)
ShareVerInit ==
    /\ sym = NoCommitments
    /\ par = NoCalls
    /\ ver = NoVer
    /\ SetupStates(1 .. Min(ShowMaxT, MaxN))
    /\ \E attributes \in SeqsOfLen(Draws, MaxL), h \in {FromU64(b) : b \in 0 .. MaxPoint},
          blindings \in SeqsOfLen(Draws, MaxL) :
         \* the draws of the opening proofs do not enter any share equation
         LET zeros == [k \in 1 .. MaxL |-> 0]
             r == compute_commitments_per_m(Credential_new(keys.ck, attributes, h), blindings,
                                            [k \in 1 .. MaxL |-> <<0, 0>>], zeros)
         IN /\ cred = r.cred
            /\ req = [h |-> r.h, commitments |-> r.commitments, proofs |-> r.proofs]
            /\ wits = [k \in 1 .. MaxL |-> <<attributes[k], blindings[k]>>]
    /\ shares = <<>>
    /\ agg = NoResult
    /\ pres = NoPresentation
    /\ out = NoResult
    /\ shown = <<>>
    /\ check = NoCheck
    /\ vrf = NoVrf
    /\ schnorr = NoSchnorr
    /\ pc = "requested"

\* Signer i runs sign_share on (h, {cm_k}, {pi_k}).
SignerSignsShare ==
    /\ pc = "requested"
    /\ \E i \in 1 .. keys.n, random_scalars \in SeqsOfLen(Draws, Len(req.proofs)) :
         LET r == sign_share(Signer_new(keys, i), req.commitments, req.proofs, req.h,
                             random_scalars)
         IN /\ r.tag = "Ok"
            /\ shares' = <<<<r.val.party_index, r.val>>>>
    /\ pc' = "share_signed"
    /\ UNCHANGED <<keys, cred, req, agg, pres, out, wits, shown, check, vrf, schnorr, ver, par, sym>>

\* A PartialSignature { party_index, h, sigma } written down without a key.
MakeUpShare ==
    /\ pc = "requested"
    /\ \E i \in 1 .. keys.n, sigma \in Fr :
         shares' = <<<<i, [party_index |-> i, h |-> req.h, sigma |-> sigma]>>>>
    /\ pc' = "share_made_up"
    /\ UNCHANGED <<keys, cred, req, agg, pres, out, wits, shown, check, vrf, schnorr, ver, par, sym>>

\* ThresholdSignature::verify_share against the key share of signer j
VerifyShare ==
    /\ pc \in {"share_signed", "share_made_up"}
    /\ \E j \in 1 .. keys.n, coeff \in RandFr :
         /\ out' = Returned(verify_share(keys.ck, keys.vk_shares[j], req.commitments,
                                         shares[1][2], coeff))
         /\ ver' = <<[vk_index |-> j, via |-> "verify_share", honest |-> pc = "share_signed"]>>
    /\ pc' = "share_verified"
    /\ UNCHANGED <<keys, cred, req, shares, agg, pres, wits, shown, check, vrf, schnorr, par, sym>>

\* User::verify_signature_share against the key share of signer j
UserVerifySignatureShare ==
    /\ pc \in {"share_signed", "share_made_up"}
    /\ \E j \in 1 .. keys.n, coeff \in RandFr,
          random_scalars \in SeqsOfLen(Draws, Len(req.proofs)) :
         /\ out' = verify_signature_share(keys.ck, keys.vk_shares[j], req.commitments,
                                          req.proofs, shares[1][2], random_scalars, coeff)
         /\ ver' = <<[vk_index |-> j, via |-> "verify_signature_share",
                      honest |-> pc = "share_signed"]>>
    /\ pc' = "share_verified"
    /\ UNCHANGED <<keys, cred, req, shares, agg, pres, wits, shown, check, vrf, schnorr, par, sym>>

ShareVerNext == SignerSignsShare \/ MakeUpShare \/ VerifyShare \/ UserVerifySignatureShare

SpecShareVer == ShareVerInit /\ [][ShareVerNext]_vars

\* prod_k e(cm_k, g~^[y_k]_j) over the first k commitments
RECURSIVE CommitmentPairings(_, _, _)
CommitmentPairings(commitments, vk_share, k) ==
    IF k = 0 THEN GtOne
    ELSE GtMul(CommitmentPairings(commitments, vk_share, k - 1),
               Pairing(commitments[k], vk_share.g_tilde_y_shares[k]))

\* e(sigma_i, g~) = e(h, g~^[x]_j) * prod_k e(cm_k, g~^[y_k]_j)
ShareEquation(sig_share, vk_share) ==
    Pairing(sig_share.sigma, keys.ck.g_tilde)
      = GtMul(Pairing(sig_share.h, vk_share.g_tilde_x_share),
              CommitmentPairings(req.commitments, vk_share, Len(req.commitments)))

\* Signers i and j hold different key material.
DifferentKeyMaterial(i, j) ==
    \/ keys.sk_shares[i].x_share # keys.sk_shares[j].x_share
    \/ keys.sk_shares[i].y_shares # keys.sk_shares[j].y_shares

\* h^([x]_i - [x]_j) * prod_k cm_k^([y_k]_i - [y_k]_j) over the first k commitments
RECURSIVE KeyDifference(_, _, _)
KeyDifference(i, j, k) ==
    IF k = 0 THEN Mul(req.h, FSub(keys.sk_shares[i].x_share, keys.sk_shares[j].x_share))
    ELSE Add(KeyDifference(i, j, k - 1),
             Mul(req.commitments[k],
                 FSub(keys.sk_shares[i].y_shares[k], keys.sk_shares[j].y_shares[k])))

\* Share verification returns true exactly when the share equation holds for
\* the key share it is given.
VerifiesIffEquation ==
    pc = "share_verified" =>
        out = Returned(ShareEquation(shares[1][2], keys.vk_shares[ver[1].vk_index]))

\* C21 (as claimed): share verification returns true exactly when the share
\* equation holds for the key share it is given; a share made by signer i's
\* sign_share passes against signer i's key share and fails against the key
\* share of every signer holding different key material.
C21_ShareVerification ==
    /\ VerifiesIffEquation
    /\ (pc = "share_verified" /\ ver[1].honest) =>
          LET i == shares[1][2].party_index
              j == ver[1].vk_index
          IN /\ i = j => out = Returned(TRUE)
             /\ DifferentKeyMaterial(i, j) => out = Returned(FALSE)

\* C21 (amended): as above, but against the key share of another signer j
\* the share of signer i fails exactly when
\* h^([x]_i - [x]_j) * prod_k cm_k^([y_k]_i - [y_k]_j) is not the identity.
C21_ShareVerificationUpToKeyDifference ==
    /\ VerifiesIffEquation
    /\ (pc = "share_verified" /\ ver[1].honest) =>
          LET i == shares[1][2].party_index
              j == ver[1].vk_index
          IN /\ i = j => out = Returned(TRUE)
             /\ out = Returned(KeyDifference(i, j, Len(req.commitments)) = 0)

C21_Witness ==
    /\ pc = "share_verified"
    /\ ver[1].honest
    /\ shares[1][2].party_index # ver[1].vk_index
    /\ DifferentKeyMaterial(shares[1][2].party_index, ver[1].vk_index)
    /\ KeyDifference(shares[1][2].party_index, ver[1].vk_index, Len(req.commitments)) # 0
    /\ out = Returned(FALSE)

(***************************************************************************)
(* SpecVerifyShares: the user's side of issuance on a list of shares it    *)
(* did not make itself.  The request is the user's own, possibly with a    *)
(* proof altered or cut short; every entry (usize, PartialSignature) of    *)
(* the list comes from a signer's sign_share and may have its tuple index, *)
(* its party_index or its sigma changed before it is listed.  The list     *)
(* goes through verify_signature_shares and what comes back through        *)
(* aggregate_shares.                                                       *)
(***************************************************************************)
\* Longest list of partial signatures handed to verify_signature_shares.
MaxPartials == 2

\* The last proof of the request as it reaches the user's checks.
AlteredProofs(proofs, how) ==
    LET n == Len(proofs)
    IN CASE how = "keep" -> proofs
         [] how = "response" -> [proofs EXCEPT ![n] = TamperedProof(@, "response")]
         [] how = "short" ->
               [proofs EXCEPT ![n].responses = SubSeq(@, 1, Len(@) - 1)]

VerifySharesInit ==
    /\ sym = NoCommitments
    /\ par = NoCalls
    /\ ver = NoVer
    /\ SetupStates(1 .. Min(ShowMaxT, MaxN))
    /\ \E attributes \in SeqsOfLen(Draws, MaxL), h \in PointDraws,
          blindings \in SeqsOfLen(Draws, MaxL), how \in {"keep", "response", "short"} :
         \* the draws of the opening proofs do not enter any share equation
         LET zeros == [k \in 1 .. MaxL |-> 0]
             r == compute_commitments_per_m(Credential_new(keys.ck, attributes, h), blindings,
                                            [k \in 1 .. MaxL |-> <<0, 0>>], zeros)
         IN /\ cred = r.cred
            /\ req = [h |-> r.h, commitments |-> r.commitments,
                      proofs |-> AlteredProofs(r.proofs, how)]
            /\ wits = [k \in 1 .. MaxL |-> <<attributes[k], blindings[k]>>]
    /\ shares = <<>>
    /\ agg = NoResult
    /\ pres = NoPresentation
    /\ out = NoResult
    /\ shown = <<>>
    /\ check = NoCheck
    /\ vrf = NoVrf
    /\ schnorr = NoSchnorr
    /\ pc = "collecting"

\* The share signer s computes for the request (sign_share_no_zkp_verify:
\* the signer's own proof check is not what is looked at here).
SignedBy(s) ==
    [party_index |-> keys.sk_shares[s].index,
     h |-> req.h,
     sigma |-> share_sigma(keys.sk_shares[s], req.commitments, req.h,
                           Min(Len(req.commitments), Len(keys.sk_shares[s].y_shares)))]

\* One more entry for the list: signer s's share as signed, or listed under
\* the next index, or carrying another signer's party_index, or with
\* another sigma.
ListShare ==
    /\ pc = "collecting"
    /\ Len(shares) < MaxPartials
    /\ \E s \in 1 .. keys.n, how \in {"as_signed", "tuple_index", "party_index", "sigma"} :
         LET sig == SignedBy(s)
             entry == CASE how = "as_signed" -> <<sig.party_index, sig>>
                        [] how = "tuple_index" -> <<sig.party_index + 1, sig>>
                        [] how = "party_index" ->
                              <<sig.party_index,
                                [sig EXCEPT !.party_index = (sig.party_index % keys.n) + 1]>>
                        [] how = "sigma" ->
                              <<sig.party_index, [sig EXCEPT !.sigma = Add(@, 1)]>>
         IN shares' = Append(shares, entry)
    /\ UNCHANGED <<keys, cred, req, agg, pres, out, wits, shown, check, vrf, schnorr, ver, pc, par, sym>>

\* UserProtocol::verify_signature_shares(ck, vk_shares, request, shares, t)
VerifySignatureShares ==
    /\ pc = "collecting"
    /\ \E random_scalars \in SeqsOfLen(Draws, Len(req.proofs)), coeff \in RandFr :
         /\ out' = verify_signature_shares(keys.ck, keys.vk_shares, req, shares, keys.t,
                                           random_scalars, coeff)
         /\ ver' = <<[random_scalars |-> random_scalars]>>
    /\ pc' = "shares_verified"
    /\ UNCHANGED <<keys, cred, req, shares, agg, pres, wits, shown, check, vrf, schnorr, par, sym>>

\* UserProtocol::aggregate_shares on the list verify_signature_shares returned
AggregateVerified ==
    /\ pc = "shares_verified"
    /\ out.tag = "Ok"
    /\ agg' = aggregate_signature_shares(keys.ck, out.val, cred.blindings, keys.t, req.h)
    /\ pc' = "aggregated"
    /\ UNCHANGED <<keys, cred, req, shares, pres, out, wits, shown, check, vrf, schnorr, ver, par, sym>>

VerifySharesNext == ListShare \/ VerifySignatureShares \/ AggregateVerified

SpecVerifyShares == VerifySharesInit /\ [][VerifySharesNext]_vars

\* The verification-key shares whose index is i.
KeySharesFor(i) == {v \in 1 .. Len(keys.vk_shares) : keys.vk_shares[v].index = i}

\* The proofs of the request pass the batch check under the draws made.
ProofsAccepted == batch_verify(req.proofs, ver[1].random_scalars) = Ok(TRUE)

\* The entry passes share verification against the key share with its index.
PassesShareVerification(entry) ==
    /\ KeySharesFor(entry[1]) # {}
    /\ ProofsAccepted
    /\ ShareEquation(entry[2], keys.vk_shares[CHOOSE v \in KeySharesFor(entry[1]) : TRUE])

\* C22 (as claimed): verify_signature_shares returns, in input order, exactly
\* the input shares that pass share verification against the key share
\* with the same index; InsufficientShares when fewer than threshold pass;
\* an error when a share names an index without a key share.
C22_VerifySignatureShares ==
    pc = "shares_verified" =>
        LET passing == SelectSeq(shares, PassesShareVerification)
        IN IF \E k \in 1 .. Len(shares) : KeySharesFor(shares[k][1]) = {}
           THEN out.tag = "Err"
           ELSE IF Len(passing) < keys.t
           THEN out.tag = "Err" /\ out.err = "InsufficientShares"
           ELSE out = Ok(passing)

\* What the code meets: the same, when the proofs of the request pass the
\* batch check.
VerifySignatureSharesOnAcceptedProofs ==
    (pc = "shares_verified" /\ ProofsAccepted) =>
        LET passing == SelectSeq(shares, PassesShareVerification)
        IN IF \E k \in 1 .. Len(shares) : KeySharesFor(shares[k][1]) = {}
           THEN out.tag = "Err"
           ELSE IF Len(passing) < keys.t
           THEN out.tag = "Err" /\ out.err = "InsufficientShares"
           ELSE out = Ok(passing)

\* C27 (as claimed): every share that reaches aggregation through
\* verify_signature_shares was verified under the index that aggregation
\* uses for its Lagrange coefficient: the tuple's usize equals
\* share.party_index.
C27_VerifiedIndexIsLagrangeIndex ==
    (pc \in {"shares_verified", "aggregated"} /\ out.tag = "Ok") =>
        \A k \in 1 .. Len(out.val) : out.val[k][1] = out.val[k][2].party_index

(***************************************************************************)
(* SpecCollect: UserProtocol::collect_signature_shares as the parallel     *)
(* iterator runs it.  signers.par_iter().take(threshold) gives one work    *)
(* item per signer among the first `threshold`; the items run in any order *)
(* on the pool's threads, each with its own thread_rng.  Collecting into   *)
(* Result<Vec<_>, _> keeps the items' order, stops handing out items once  *)
(* one of them has returned Err (items not yet started are then never      *)
(* run), and returns one of the errors seen; a panic in an item is         *)
(* propagated to the caller.                                               *)
(***************************************************************************)
\* A work item whose closure was never called.
Skipped == [tag |-> "Skipped", val |-> FALSE, err |-> "", needed |-> 0, got |-> 0]

CollectInit ==
    /\ sym = NoCommitments
    /\ par = NoCalls
    /\ ver = NoVer
    /\ SetupStates(1 .. MaxN)
    /\ \E attributes \in SeqsOfLen(Draws, MaxL), h \in PointDraws,
          blindings \in SeqsOfLen(Draws, MaxL), how \in {"keep", "response", "short"} :
         \* the draws of the opening proofs do not enter any share
         LET zeros == [k \in 1 .. MaxL |-> 0]
             r == compute_commitments_per_m(Credential_new(keys.ck, attributes, h), blindings,
                                            [k \in 1 .. MaxL |-> <<0, 0>>], zeros)
         IN /\ cred = r.cred
            /\ req = [h |-> r.h, commitments |-> r.commitments,
                      proofs |-> AlteredProofs(r.proofs, how)]
            /\ wits = [k \in 1 .. MaxL |-> <<attributes[k], blindings[k]>>]
    /\ shares = <<>>
    /\ agg = NoResult
    /\ pres = NoPresentation
    /\ out = NoResult
    /\ shown = <<>>
    /\ check = NoCheck
    /\ vrf = NoVrf
    /\ schnorr = NoSchnorr
    /\ pc = "setup"

\* collect_signature_shares(&signers[..supplied], request, threshold, rng)
\* is entered: the work items are laid out.
CollectCalled ==
    /\ pc = "setup"
    /\ \E supplied \in 0 .. keys.n :
         par' = [supplied |-> supplied,
                 results |-> [i \in 1 .. Min(keys.t, supplied) |-> NoResult]]
    /\ pc' = "collecting"
    /\ UNCHANGED <<keys, cred, req, shares, agg, pres, out, wits, shown, check, vrf, schnorr, ver, sym>>

\* One work item runs: signer i's sign_share with the thread's own rng.
SignerCall ==
    /\ pc = "collecting"
    /\ \E i \in 1 .. Len(par.results) :
         /\ par.results[i] = NoResult
         /\ \E random_scalars \in SeqsOfLen(Draws, Len(req.proofs)) :
              par' = [par EXCEPT !.results[i] =
                         sign_share(Signer_new(keys, i), req.commitments, req.proofs, req.h,
                                    random_scalars)]
    /\ UNCHANGED <<keys, cred, req, shares, agg, pres, out, wits, shown, check, vrf, schnorr, ver, pc, sym>>

\* After an item has failed, an item not yet started is dropped.
SignerCallSkipped ==
    /\ pc = "collecting"
    /\ \E j \in 1 .. Len(par.results) : par.results[j].tag \in {"Err", "Panic"}
    /\ \E i \in 1 .. Len(par.results) :
         /\ par.results[i] = NoResult
         /\ par' = [par EXCEPT !.results[i] = Skipped]
    /\ UNCHANGED <<keys, cred, req, shares, agg, pres, out, wits, shown, check, vrf, schnorr, ver, pc, sym>>

\* All items are done: collect()?, then the length check.
CollectReturns ==
    /\ pc = "collecting"
    /\ \A i \in 1 .. Len(par.results) : par.results[i] # NoResult
    /\ LET failed == {i \in 1 .. Len(par.results) : par.results[i].tag = "Err"}
           panicked == {i \in 1 .. Len(par.results) : par.results[i].tag = "Panic"}
           collected == [i \in 1 .. Len(par.results) |->
                            <<par.results[i].val.party_index, par.results[i].val>>]
       IN IF panicked # {} THEN out' = Panic /\ shares' = <<>>
          ELSE IF failed # {}
          THEN /\ \E i \in failed : out' = par.results[i]
               /\ shares' = <<>>
          ELSE IF Len(collected) < keys.t
          THEN /\ out' = InsufficientShares(keys.t, Len(collected))
               /\ shares' = <<>>
          ELSE /\ out' = Ok(collected)
               /\ shares' = collected
    /\ pc' = "collected"
    /\ UNCHANGED <<keys, cred, req, agg, pres, wits, shown, check, vrf, schnorr, ver, par, sym>>

CollectNext == CollectCalled \/ SignerCall \/ SignerCallSkipped \/ CollectReturns

SpecCollect == CollectInit /\ [][CollectNext]_vars

\* The share signer i ought to return for the request.
ShareOf(i) ==
    [party_index |-> i,
     h |-> req.h,
     sigma |-> Add(Mul(req.h, keys.sk_shares[i].x_share),
                   msm_unchecked(req.commitments, keys.sk_shares[i].y_shares))]

\* C23 (as claimed): sign_share is called on exactly the first threshold
\* signers; whatever the order of the calls, the list returned is one share
\* per signer, in signer order, tagged with the signer's party index;
\* InsufficientShares when fewer than threshold signers are supplied; an
\* error and no shares when a signer call fails.
C23_CollectSignatureShares ==
    pc = "collected" =>
        /\ \A i \in 1 .. Min(keys.t, par.supplied) : par.results[i].tag \in {"Ok", "Err", "Panic"}
        /\ par.supplied < keys.t => (out.tag = "Err" /\ out.err = "InsufficientShares")
        /\ (\E i \in 1 .. Len(par.results) : par.results[i].tag \in {"Err", "Panic"})
              => (out.tag = "Err" /\ shares = <<>>)
        /\ (/\ par.supplied >= keys.t
            /\ \A i \in 1 .. Len(par.results) : par.results[i].tag = "Ok")
              => out = Ok([i \in 1 .. keys.t |-> <<i, ShareOf(i)>>])

\* What the code meets under every interleaving: when every call succeeds
\* and enough signers are supplied, the list is the same, one share per
\* signer among the first threshold, in signer order.
CollectedListIsDetermined ==
    (pc = "collected" /\ out.tag = "Ok") =>
        /\ \A i \in 1 .. keys.t : par.results[i].tag = "Ok"
        /\ out = Ok([i \in 1 .. keys.t |-> <<i, ShareOf(i)>>])

(* ======================================================================== *)
(* SymmetricCommitment::new followed by randomize calls                      *)
(* (symmetric_commitment.rs:69-101).                                         *)
(* ======================================================================== *)
MaxRandomize == 2

SymInit ==
    /\ sym = NoCommitments
    /\ par = NoCalls
    /\ ver = NoVer
    /\ cred = NoCredential
    /\ req = NoRequest
    /\ shares = <<>>
    /\ agg = NoResult
    /\ pres = NoPresentation
    /\ out = NoResult
    /\ wits = <<>>
    /\ shown = <<>>
    /\ check = NoCheck
    /\ vrf = NoVrf
    /\ schnorr = NoSchnorr
    /\ \E y_values \in SeqsOfLen({FromU64(y) : y \in 1 .. MaxPoint}, MaxL + 1), g \in PointDraws, g_tilde \in PointDraws :
         keys = [some |-> TRUE, ck |-> SymmetricCommitmentKey_new(y_values, g, g_tilde)]
    /\ pc = "sym_key"

\* SymmetricCommitment::new(ck, messages, r) with at most ck.len() messages.
SymNew ==
    /\ pc = "sym_key"
    /\ \E messages \in SeqsUpTo(Fr, Len(keys.ck.ck)), r \in Fr :
         sym' = [hist |-> <<SymmetricCommitment_new(keys.ck, messages, r)>>, deltas |-> <<>>]
    /\ pc' = "sym_committed"
    /\ UNCHANGED <<keys, cred, req, shares, agg, pres, out, wits, shown, check, vrf, schnorr, ver, par>>

\* commitment.randomize(r_delta) on the latest commitment.
SymRandomize ==
    /\ pc = "sym_committed"
    /\ Len(sym.deltas) < MaxRandomize
    /\ \E r_delta \in Fr :
         sym' = [hist |-> Append(sym.hist, SymmetricCommitment_randomize(sym.hist[Len(sym.hist)], r_delta)),
                 deltas |-> Append(sym.deltas, r_delta)]
    /\ UNCHANGED <<keys, cred, req, shares, agg, pres, out, wits, shown, check, vrf, schnorr, ver, par, pc>>

SymNext == SymNew \/ SymRandomize

SpecSym == SymInit /\ [][SymNext]_vars

\* sum_k m_k * base_k + r * blinding_base, written out term by term.
RECURSIVE Opening(_, _, _, _, _)
Opening(bases, blinding_base, messages, r, k) ==
    IF k = 0 THEN Mul(blinding_base, r)
    ELSE Add(Opening(bases, blinding_base, messages, r, k - 1), Mul(bases[k], messages[k]))

OpensBoth(c) ==
    /\ c.cm = Opening(c.ck.ck, c.ck.g, c.messages, c.r, Len(c.messages))
    /\ c.cm_tilde = Opening(c.ck.ck_tilde, c.ck.g_tilde, c.messages, c.r, Len(c.messages))

\* C24: new commits to the same (messages, r) in G1 and G2; each randomize(r')
\* adds r'*g and r'*g~ to the two points, r' to the stored blinding and keeps the
\* messages; so after new and any randomize calls the stored (messages, r) open
\* both points, e(C, g~) = e(g, C~), and randomize(a) then randomize(b) is
\* randomize(a + b).
C24_SymmetricCommitmentInvariant ==
    \A i \in 1 .. Len(sym.hist) :
        LET c == sym.hist[i] IN
        /\ OpensBoth(c)
        /\ Pairing(c.cm, c.ck.g_tilde) = Pairing(c.ck.g, c.cm_tilde)
        /\ c.messages = sym.hist[1].messages
        /\ i > 1 =>
             LET b == sym.hist[i - 1]
                 d == sym.deltas[i - 1] IN
             /\ c.cm = Add(b.cm, Mul(b.ck.g, d))
             /\ c.cm_tilde = Add(b.cm_tilde, Mul(b.ck.g_tilde, d))
             /\ c.r = FAdd(b.r, d)
        /\ i > 2 =>
             c = SymmetricCommitment_randomize(sym.hist[i - 2], FAdd(sym.deltas[i - 2], sym.deltas[i - 1]))

C24_Witness ==
    /\ Len(sym.hist) = 3
    /\ sym.hist[1].messages # <<>>
    /\ sym.deltas[1] # 0
    /\ sym.deltas[2] # 0
    /\ FAdd(sym.deltas[1], sym.deltas[2]) # 0
    /\ sym.hist[3].cm # sym.hist[1].cm
    /\ sym.hist[3].cm_tilde # sym.hist[1].cm_tilde

(* ======================================================================== *)
(* PairingCheck::rand on a target of the caller's choosing, then verify      *)
(* (pairing.rs:102-128, 144-153).                                            *)
(* ======================================================================== *)
MaxPairs == 2

RandInit ==
    /\ sym = NoCommitments
    /\ par = NoCalls
    /\ ver = NoVer
    /\ keys = NoKeys
    /\ cred = NoCredential
    /\ req = NoRequest
    /\ shares = <<>>
    /\ agg = NoResult
    /\ pres = NoPresentation
    /\ out = NoResult
    /\ wits = <<>>
    /\ shown = <<>>
    /\ check = [acc |-> PairingCheck_new, total |-> 0]
    /\ vrf = NoVrf
    /\ schnorr = NoSchnorr
    /\ pc = "rand_idle"

\* let tuple = PairingCheck::rand(&rng, it, out); out is any TargetField value.
RandBuild ==
    /\ pc = "rand_idle"
    /\ \E it \in SeqsUpTo({FromU64(a) : a \in 0 .. MaxPoint} \X {FromU64(b) : b \in 0 .. MaxPoint}, MaxPairs),
          R0 \in TargetField, coeff \in RandFr :
         /\ ver' = <<[it |-> it, out |-> R0, tuple |-> PairingCheck_rand(coeff, it, R0)]>>
    /\ pc' = "rand_built"
    /\ UNCHANGED <<keys, cred, req, shares, agg, pres, out, wits, shown, check, vrf, schnorr, par, sym>>

\* acc.merge(&tuple) into the accumulator that started as PairingCheck::new().
RandMerge ==
    /\ pc = "rand_built"
    /\ check' = [acc |-> PairingCheck_merge(check.acc, ver[1].tuple), total |-> check.total]
    /\ pc' = "rand_merged"
    /\ UNCHANGED <<keys, cred, req, shares, agg, pres, out, wits, shown, vrf, schnorr, ver, par, sym>>

\* acc.verify()
RandVerify ==
    /\ pc = "rand_merged"
    /\ out' = Returned(PairingCheck_verify(check.acc))
    /\ pc' = "rand_checked"
    /\ UNCHANGED <<keys, cred, req, shares, agg, pres, wits, shown, check, vrf, schnorr, ver, par, sym>>

RandNext == RandBuild \/ RandMerge \/ RandVerify

SpecRand == RandInit /\ [][RandNext]_vars

\* prod_i e(a_i, b_i) over the first k pairs.
RECURSIVE PairingProduct(_, _)
PairingProduct(it, k) ==
    IF k = 0 THEN GtOne ELSE GtMul(PairingProduct(it, k - 1), Pairing(it[k][1], it[k][2]))

RandVerifiesIffProductOnPairingTargets ==
    (pc = "rand_checked" /\ \E a \in Fr, b \in Fr : ver[1].out = Pairing(a, b)) =>
        (out = Returned(TRUE) <=> PairingProduct(ver[1].it, Len(ver[1].it)) = ver[1].out)

\* new() is neutral for merge.
NewIsNeutralForMerge ==
    pc \in {"rand_merged", "rand_checked"} => check.acc = ver[1].tuple

(* ======================================================================== *)
(* A presentation built from the public keys alone, with no signer share,    *)
(* sent to VerifierProtocol::verify (protocol.rs:170-186,                    *)
(* signature.rs:138-178).                                                    *)
(* ======================================================================== *)
ForgeInit ==
    /\ sym = NoCommitments
    /\ par = NoCalls
    /\ ver = NoVer
    /\ SetupStates(1 .. Min(ShowMaxT, MaxN))
    /\ cred = NoCredential
    /\ req = NoRequest
    /\ shares = <<>>
    /\ agg = NoResult
    /\ pres = NoPresentation
    /\ out = NoResult
    /\ wits = <<>>
    /\ shown = <<>>
    /\ check = NoCheck
    /\ vrf = NoVrf
    /\ schnorr = NoSchnorr
    /\ pc = "setup"

\* A party holding only (ck, vk) picks messages and a blinding of its own,
\* commits to them in G1 and G2 and sends the pair with h_rand = identity,
\* a sigma_rand of its choice and proof bytes of its choice.
ForgePresentation ==
    /\ pc = "setup"
    /\ \E messages \in SeqsOfLen(Fr, keys.l), r \in Draws, sigma \in {FromU64(s) : s \in 0 .. MaxDelta},
          how \in {"keep", "garbage"} :
         LET commitment == SymmetricCommitment_new(keys.ck, messages, r)
             proof == SymmetricCommitment_prove(commitment, [j \in 1 .. keys.l + 1 |-> 0], 0)
         IN pres' = [sig |-> [h |-> 0, sigma |-> sigma],
                     cm |-> commitment.cm,
                     cm_tilde |-> commitment.cm_tilde,
                     proof |-> TamperedProof(proof, how)]
    /\ pc' = "shown"
    /\ UNCHANGED <<keys, cred, req, shares, agg, out, wits, shown, check, vrf, schnorr, ver, par, sym>>

ForgeNext == ForgePresentation \/ Verify

SpecForge == ForgeInit /\ [][ForgeNext]_vars

\* C26 (as claimed): with no share ever issued, a presentation whose h_rand
\* is the identity of G1 is rejected by VerifierProtocol::verify.
C26_IdentityPresentationRejected ==
    (pc = "verified" /\ shares = <<>> /\ cred = NoCredential /\ pres.sig.h = 0) => ~Accepted

\* What verify does decide on such a presentation: it accepts exactly when
\* sigma_rand is the identity too.
IdentityPresentationAcceptedIffSigmaIdentity ==
    (pc = "verified" /\ pres.sig.h = 0) => (Accepted <=> pres.sig.sigma = 0)

(* ======================================================================== *)
(* The operations of a Credential in any order, set_attributes and           *)
(* set_symmetric_commitment included (credential.rs:41-263).                 *)
(* ======================================================================== *)
\* credential.set_attributes(messages)
CredSetAttributes ==
    /\ \E messages \in SeqsUpTo(Draws, Len(cred.ck.ck)) :
         cred' = set_attributes(cred, messages)
    /\ out' = NoResult
    /\ pc' = "set_attributes"
    /\ UNCHANGED <<keys, req, shares, agg, pres, wits, shown, check, vrf, schnorr, ver, par, sym>>

\* credential.set_symmetric_commitment()
CredSetSymmetricCommitment ==
    /\ cred' = set_symmetric_commitment(cred)
    /\ out' = NoResult
    /\ pc' = "set_symmetric_commitment"
    /\ UNCHANGED <<keys, req, shares, agg, pres, wits, shown, check, vrf, schnorr, ver, par, sym>>

\* credential.show(rng); the presentation goes to the caller.  Which
\* commitment is randomized does not depend on the draws made for the proof,
\* so one draw stands for all.
CredOpsShow ==
    /\ \E u_delta \in Draws, r_delta \in Draws :
         LET random_blindings == [k \in 1 .. Len(cred.ck.ck) + 1 |-> 0]
             challenge == 0
             r == show(cred, u_delta, r_delta, random_blindings, challenge)
         IN /\ out' = r.out
            /\ pres' = r.pres
    /\ pc' = "show"
    /\ UNCHANGED <<keys, cred, req, shares, agg, wits, shown, check, vrf, schnorr, ver, par, sym>>

CredOpsNext ==
    \/ CredSetAttributes
    \/ CredSetSymmetricCommitment
    \/ CredComputeCommitments
    \/ CredAttachSignature
    \/ CredOpsShow

SpecCredOps == CredInit /\ [][CredOpsNext]_vars

\* C28 (as claimed): after every sequence of Credential operations the
\* credential's symmetric commitment is Commit(CK, current messages, r = 0).
C28_CommitmentFollowsMessages ==
    /\ cred.cm.messages = cred.messages
    /\ cred.cm.r = 0
    /\ cred.cm.cm = g1_commit(cred.ck, cred.messages, 0)
    /\ cred.cm.cm_tilde = g2_commit(cred.ck, cred.messages, 0)

\* What does hold: the commitment is the one of the messages that were
\* current at the last new / set_symmetric_commitment.
CommitmentOpensItsOwnMessages ==
    cred.cm = SymmetricCommitment_new(cred.ck, cred.cm.messages, 0)

\* A show that randomizes a commitment to other messages than the ones held.
ShowOfStaleCommitment ==
    pc = "show" /\ out.tag = "Ok" => cred.cm.messages = cred.messages

(* ======================================================================== *)
(* The width of PairingCheck::non_randomized (SpecPairing).                  *)
(* ======================================================================== *)
\* C29 (as claimed): the counter never wraps around: whenever the merged
\* non-randomized contributions total more than 1, totals of 256 and more
\* included, the counter is above 1 and verify returns false.
C29_CounterNeverWraps ==
    check.total > 1 =>
        /\ check.acc.non_randomized > 1
        /\ pc = "checked" => out = Returned(FALSE)

\* What does hold: the counter is the total modulo 2^8.
CounterIsTotalModuloWidth ==
    check.acc.non_randomized = check.total % U8Modulus

(* ======================================================================== *)
(* batch_verify on byte strings of the sender's choosing                     *)
(* (commitment.rs:85-145, schnorr_batch.rs:13-75).                           *)
(* ======================================================================== *)
\* The sender rewrites the bytes of the last proof: they no longer
\* deserialize, or they deserialize to a CommitmentProof whose responses
\* vector has lost its last entry or gained one.
ResizedProof(proof, how, extra) ==
    CASE how = "garbage" -> Garbage
      [] how = "shorter" ->
            [proof EXCEPT !.responses = SubSeq(proof.responses, 1, Len(proof.responses) - 1)]
      [] how = "longer" -> [proof EXCEPT !.responses = Append(proof.responses, extra)]

ResizeResponses ==
    /\ pc = "proving" /\ Len(req.proofs) >= 1
    /\ \E how \in {"garbage", "shorter", "longer"}, extra \in Draws :
         req' = [req EXCEPT !.proofs[Len(req.proofs)] = ResizedProof(@, how, extra)]
    /\ pc' = "corrupted"
    /\ UNCHANGED <<keys, cred, shares, agg, pres, out, wits, shown, check, vrf, schnorr, ver, par, sym>>

BatchNext == ProveCommitment \/ ResizeResponses \/ BatchVerify

SpecBatch == ProofInit /\ [][BatchNext]_vars

\* C30 (as claimed): batch_verify returns Ok(true), Ok(false) or Err for every
\* list of byte strings, proofs with a shorter or longer responses vector
\* than bases vector included; it never panics.
C30_BatchVerifyNeverPanics ==
    pc = "batch_verified" => out.tag \in {"Ok", "Err"}

\* What does hold: batch_verify returns a tagged result whenever every proof
\* that deserializes has at least as many responses as bases.
BatchVerifyTaggedUnlessShort ==
    (pc = "batch_verified"
       /\ \A i \in 1 .. Len(req.proofs) :
            req.proofs[i].wellformed => Len(req.proofs[i].responses) >= Len(req.proofs[i].bases))
      => out.tag \in {"Ok", "Err"}

====
